---- MODULE Spec2Model ----
(***************************************************************************)
(* Real-time meeting-minutes translation: sentence splitter, segment       *)
(* reconciler, timeline merger and translation dispatcher.                 *)
(*                                                                         *)
(* A text is a sequence of one-character strings.  The ideographic full    *)
(* stop U+3002 is written "IDEO_STOP".                                     *)
(***************************************************************************)
EXTENDS Integers, Sequences, FiniteSets, TLC

(***************************************************************************)
(* Bounds of the model.                                                    *)
(***************************************************************************)
MaxTime == 2
MaxTicks == 2

(***************************************************************************)
(* Text helpers (String.prototype.trim, Array.prototype.join).             *)
(***************************************************************************)
Whitespace == {" "}

IsBlank(s) == \A i \in 1..Len(s) : s[i] \in Whitespace

RECURSIVE TrimStart(_)
TrimStart(s) ==
    IF s # <<>> /\ Head(s) \in Whitespace THEN TrimStart(Tail(s)) ELSE s

RECURSIVE TrimEnd(_)
TrimEnd(s) ==
    IF s # <<>> /\ s[Len(s)] \in Whitespace
    THEN TrimEnd(SubSeq(s, 1, Len(s) - 1))
    ELSE s

Trim(s) == TrimEnd(TrimStart(s))

RECURSIVE Join(_, _)
Join(parts, sep) ==
    IF parts = <<>> THEN <<>>
    ELSE IF Len(parts) = 1 THEN parts[1]
    ELSE parts[1] \o sep \o Join(Tail(parts), sep)

(***************************************************************************)
(* Sentence splitter (MeetingMinutesSegmentSplitter.ts).                   *)
(***************************************************************************)
NoLanguage == "undefined"

SupportedLanguageCodes == {"ja-JP", "en-US"}

SENTENCE_DELIMITERS(languageCode) ==
    IF languageCode = "ja-JP" THEN {"IDEO_STOP", "?"} ELSE {".", "?"}

\* Mutant: every present code is supported.
supportsSentenceTranslationAny(languageCode) == languageCode # NoLanguage

supportsSentenceTranslation(languageCode) ==
    languageCode # NoLanguage /\ languageCode \in SupportedLanguageCodes

\* text.split(pattern) with one capturing group: the spans between
\* delimiters, each followed by the delimiter that closed it.
RECURSIVE SplitParts(_, _, _)
SplitParts(text, delimiters, current) ==
    IF text = <<>> THEN <<current>>
    ELSE IF Head(text) \in delimiters
         THEN <<current, <<Head(text)>>>> \o SplitParts(Tail(text), delimiters, <<>>)
         ELSE SplitParts(Tail(text), delimiters, Append(current, Head(text)))

\* Mutant: the terminator is not put back at the end of its sentence.
RECURSIVE ReconstructWithoutDelimiter(_, _)
ReconstructWithoutDelimiter(parts, i) ==
    IF i > Len(parts) THEN <<>>
    ELSE (IF ~IsBlank(parts[i]) THEN <<parts[i]>> ELSE <<>>)
         \o ReconstructWithoutDelimiter(parts, i + 2)

RECURSIVE Reconstruct(_, _)
Reconstruct(parts, i) ==
    IF i > Len(parts) THEN <<>>
    ELSE LET sentence == parts[i]
             delimiter == IF i + 1 <= Len(parts) THEN parts[i + 1] ELSE <<>>
             combinedSentence == sentence \o delimiter
         IN  (IF ~IsBlank(combinedSentence) THEN <<combinedSentence>> ELSE <<>>)
             \o Reconstruct(parts, i + 2)

splitIntoSentences(text, languageCode) ==
    IF ~supportsSentenceTranslation(languageCode)
    THEN IF Trim(text) # <<>> THEN <<text>> ELSE <<>>
    ELSE LET sentences ==
                 Reconstruct(SplitParts(text, SENTENCE_DELIMITERS(languageCode), <<>>), 1)
         IN  SelectSeq(sentences, LAMBDA s : Len(Trim(s)) > 0)

\* Mutant: the support test is left out.
containsSentenceDelimitersAnyLanguage(text, languageCode) ==
    \E i \in 1..Len(text) : text[i] \in SENTENCE_DELIMITERS(languageCode)

\* delimiters.some((delimiter) => text.includes(delimiter))
containsSentenceDelimiters(text, languageCode) ==
    IF ~supportsSentenceTranslation(languageCode)
    THEN FALSE
    ELSE \E delimiter \in SENTENCE_DELIMITERS(languageCode) :
             \E i \in 1..Len(text) : text[i] = delimiter

countSentences(text, languageCode) ==
    Len(splitIntoSentences(text, languageCode))

(***************************************************************************)
(* Segment reconciler (updateTranslationSegments).                         *)
(* An absent optional field is UndefinedText / UndefinedTranslation / 0.   *)
(***************************************************************************)
UndefinedText == <<"undefined">>
UndefinedTranslation == "undefined"
NoTimestamp == 0

\* Mutant: a new sentence is born as already translated.
NewSentenceSegmentSettled(sentence) ==
    [text |-> sentence,
     needsTranslation |-> FALSE,
     translation |-> UndefinedTranslation,
     lastTranslatedText |-> UndefinedText,
     requestTimestamp |-> NoTimestamp]

NewSentenceSegment(sentence) ==
    [text |-> sentence,
     needsTranslation |-> Len(Trim(sentence)) > 0,
     translation |-> UndefinedTranslation,
     lastTranslatedText |-> UndefinedText,
     requestTimestamp |-> NoTimestamp]

\* Mutant: a changed sentence forgets the previous translation fields.
ChangedSentenceSegmentFresh(existingSegment, sentence) ==
    [text |-> sentence,
     needsTranslation |-> Len(Trim(sentence)) > 0,
     translation |-> UndefinedTranslation,
     lastTranslatedText |-> UndefinedText,
     requestTimestamp |-> NoTimestamp]

ChangedSentenceSegment(existingSegment, sentence) ==
    [existingSegment EXCEPT !.text = sentence,
                            !.needsTranslation = Len(Trim(sentence)) > 0]

\* Mutant: the previous records past the new sentences are kept.
updateTranslationSegmentsKeepingTail(newText, languageCode, existingSegments) ==
    LET newSentences == splitIntoSentences(newText, languageCode)
        count == IF Len(existingSegments) > Len(newSentences)
                 THEN Len(existingSegments) ELSE Len(newSentences)
    IN  [index \in 1..count |->
            IF index > Len(newSentences) THEN existingSegments[index]
            ELSE IF index > Len(existingSegments)
                 THEN NewSentenceSegment(newSentences[index])
                 ELSE IF existingSegments[index].text = newSentences[index]
                      THEN existingSegments[index]
                      ELSE ChangedSentenceSegment(existingSegments[index],
                                                  newSentences[index])]

\* The unchanged branch marks the record as needing translation again.
updateTranslationSegmentsResetting(newText, languageCode, existingSegments) ==
    LET newSentences == splitIntoSentences(newText, languageCode)
    IN  [index \in 1..Len(newSentences) |->
            LET sentence == newSentences[index]
            IN  IF index > Len(existingSegments)
                THEN NewSentenceSegment(sentence)
                ELSE ChangedSentenceSegment(existingSegments[index], sentence)]

updateTranslationSegments(newText, languageCode, existingSegments) ==
    LET newSentences == splitIntoSentences(newText, languageCode)
    IN  [index \in 1..Len(newSentences) |->
            LET sentence == newSentences[index]
            IN  IF index > Len(existingSegments)
                THEN NewSentenceSegment(sentence)
                ELSE IF existingSegments[index].text = sentence
                     THEN existingSegments[index]
                     ELSE ChangedSentenceSegment(existingSegments[index], sentence)]

(***************************************************************************)
(* Inputs of the model.                                                    *)
(***************************************************************************)
ResultIds == {"r1"}
Sources == {"microphone", "screen"}
AvailableModels == <<"m1", "m2">>

Null == "null"
Results == {"", "x"}

\* Transcript units delivered by the recognizer: "a.", "b." and "c.".
UnitA == <<"a", ".">>
UnitB == <<"b", ".">>
UnitC == <<"c", ".">>
TranscriptChoices == {<<UnitA>>, <<UnitC, UnitB>>}

RawSegments ==
    [resultId : ResultIds, startTime : {1}, endTime : {2}, isPartial : {TRUE},
     transcripts : TranscriptChoices, languageCode : {NoLanguage}]

(***************************************************************************)
(* State of the MeetingMinutesRealtimeTranslation component.               *)
(***************************************************************************)
VARIABLES
    realtimeSegments,          \* the timeline (state and realtimeSegmentsRef)
    latestRequestTimestamps,   \* side index: requestId -> timestamp
    selectedTranslationModel,  \* "" while no model is selected
    primaryLanguage,
    currentSessionId,
    recording,                 \* micRecording || screenRecording
    intervalClosure,           \* state captured by the running interval callback
    ticks,                     \* interval callbacks awaiting a translation call
    now,                       \* Date.now()
    committedBy,               \* history: request whose result a sentence holds
    lastOp,                    \* history: the last operation and its inputs
    userDefinedContext,        \* text of the user's context field
    systemGeneratedContext,    \* the generated summary
    contextCalls,              \* context generations awaiting the model
    translationType,           \* "unidirectional" or "bidirectional"
    secondaryLanguage,
    pcall                      \* the last call of a pure function and its result

vars == <<realtimeSegments, latestRequestTimestamps, selectedTranslationModel,
          primaryLanguage, currentSessionId, recording, intervalClosure, ticks,
          now, committedBy, lastOp, userDefinedContext, systemGeneratedContext,
          contextCalls, translationType, secondaryLanguage, pcall>>

contextVars == <<userDefinedContext, systemGeneratedContext, contextCalls>>

settingVars == <<translationType, secondaryLanguage>>

MaxSessions == 2

EmptyMap == [k \in {} |-> 0]

MapGet(map, key) == IF key \in DOMAIN map THEN map[key] ELSE NoTimestamp

MapSet(map, key, value) ==
    [k \in DOMAIN map \cup {key} |-> IF k = key THEN value ELSE map[k]]

Init ==
    /\ realtimeSegments = <<>>
    /\ latestRequestTimestamps = EmptyMap
    /\ selectedTranslationModel = ""
    /\ primaryLanguage = "en-US"
    /\ currentSessionId = 0
    /\ recording = FALSE
    /\ intervalClosure = [latestRequestTimestamps |-> EmptyMap,
                          userDefinedContext |-> <<>>,
                          systemGeneratedContext |-> <<>>,
                          recentSegmentsText |-> <<>>,
                          translationType |-> "unidirectional",
                          primaryLanguage |-> "en-US",
                          secondaryLanguage |-> "ja-JP"]
    /\ translationType = "unidirectional"
    /\ secondaryLanguage = "ja-JP"
    /\ userDefinedContext = <<>>
    /\ systemGeneratedContext = <<>>
    /\ contextCalls = <<>>
    /\ ticks = <<>>
    /\ now = 0
    /\ committedBy = EmptyMap
    /\ lastOp = [op |-> "init"]
    /\ pcall = [op |-> "none"]

(***************************************************************************)
(* Timeline merger (updateRealtimeSegments and the raw-transcript effects).*)
(***************************************************************************)
\* Mutant: the lookup ignores the source.
FindIndexAnySource(segments, resultId, source) ==
    LET hits == {i \in 1..Len(segments) : segments[i].resultId = resultId}
    IN  IF hits = {} THEN 0 ELSE CHOOSE i \in hits : \A j \in hits : i <= j

FindIndex(segments, resultId, source) ==
    LET hits == {i \in 1..Len(segments) :
                    segments[i].resultId = resultId /\ segments[i].source = source}
    IN  IF hits = {} THEN 0 ELSE CHOOSE i \in hits : \A j \in hits : i <= j

CurrentText(transcripts) == Trim(Join(transcripts, <<" ">>))

\* Mutant: the configured primary language wins over the code of the update.
ResolveLanguageCodePrimaryFirst(rawLanguageCode, primary) ==
    IF primary # "auto" THEN primary ELSE rawLanguageCode

ResolveLanguageCode(rawLanguageCode, primary) ==
    IF rawLanguageCode # NoLanguage THEN rawLanguageCode
    ELSE IF primary = "auto" THEN NoLanguage ELSE primary

\* The RealtimeSegment the effect builds from one raw transcript segment.
MakeSegment(rawSegment, source, sessionId, primary) ==
    LET languageCode == ResolveLanguageCode(rawSegment.languageCode, primary)
    IN  [resultId |-> rawSegment.resultId,
         source |-> source,
         startTime |-> rawSegment.startTime,
         endTime |-> rawSegment.endTime,
         isPartial |-> rawSegment.isPartial,
         transcripts |-> rawSegment.transcripts,
         sessionId |-> sessionId,
         languageCode |-> languageCode,
         translationSegments |->
             updateTranslationSegments(CurrentText(rawSegment.transcripts),
                                       languageCode, <<>>)]

\* Mutant: a replaced entry keeps the sentence records it had.
updateRealtimeSegmentsKeeping(prev, newSegment) ==
    LET existingIndex == FindIndex(prev, newSegment.resultId, newSegment.source)
        currentText == CurrentText(newSegment.transcripts)
    IN  IF existingIndex > 0
        THEN [prev EXCEPT ![existingIndex] =
                 [newSegment EXCEPT !.translationSegments =
                     prev[existingIndex].translationSegments]]
        ELSE Append(prev,
                 [newSegment EXCEPT !.translationSegments =
                     updateTranslationSegments(currentText, newSegment.languageCode, <<>>)])

\* Mutant: a replaced entry is reconciled against an empty list.
updateRealtimeSegmentsFresh(prev, newSegment) ==
    LET existingIndex == FindIndex(prev, newSegment.resultId, newSegment.source)
        currentText == CurrentText(newSegment.transcripts)
    IN  IF existingIndex > 0
        THEN [prev EXCEPT ![existingIndex] =
                 [newSegment EXCEPT !.translationSegments =
                     updateTranslationSegments(currentText, newSegment.languageCode, <<>>)]]
        ELSE Append(prev,
                 [newSegment EXCEPT !.translationSegments =
                     updateTranslationSegments(currentText, newSegment.languageCode, <<>>)])

updateRealtimeSegments(prev, newSegment) ==
    LET existingIndex == FindIndex(prev, newSegment.resultId, newSegment.source)
        currentText == CurrentText(newSegment.transcripts)
    IN  IF existingIndex > 0
        THEN [prev EXCEPT ![existingIndex] =
                 [newSegment EXCEPT !.translationSegments =
                     updateTranslationSegments(currentText, newSegment.languageCode,
                                               prev[existingIndex].translationSegments)]]
        ELSE Append(prev,
                 [newSegment EXCEPT !.translationSegments =
                     updateTranslationSegments(currentText, newSegment.languageCode, <<>>)])

Position(resultId, source, sentenceIndex) == <<resultId, source, sentenceIndex>>

SegmentsOf(segments, resultId, source) ==
    LET i == FindIndex(segments, resultId, source)
    IN  IF i = 0 THEN <<>> ELSE segments[i].translationSegments

\* History bookkeeping: a sentence index that no longer exists holds no result.
PruneCommitted(map, segments) ==
    [p \in {q \in DOMAIN map : q[3] <= Len(SegmentsOf(segments, q[1], q[2]))} |-> map[p]]

\* Mutant: an upsert rewrites the sentence text inside the timelines that
\* running interval callbacks have read.
UpsertInPlace(rawSegment, source) ==
    /\ LET newSegment == MakeSegment(rawSegment, source, currentSessionId, primaryLanguage)
       IN  /\ realtimeSegments' = updateRealtimeSegments(realtimeSegments, newSegment)
           /\ lastOp' = [op |-> "upsert"]
    /\ committedBy' = PruneCommitted(committedBy, realtimeSegments')
    /\ ticks' = [i \in 1..Len(ticks) |->
                    [ticks[i] EXCEPT !.work =
                        [w \in 1..Len(ticks[i].work) |->
                            LET item == ticks[i].work[w]
                                current == SegmentsOf(realtimeSegments', item.resultId,
                                                      item.source)
                            IN  IF item.sentenceIndex <= Len(current)
                                THEN [item EXCEPT
                                         !.text = current[item.sentenceIndex].text]
                                ELSE item]]]
    /\ UNCHANGED <<latestRequestTimestamps, selectedTranslationModel, primaryLanguage,
                   currentSessionId, recording, intervalClosure, now, pcall>>
    /\ UNCHANGED contextVars
    /\ UNCHANGED settingVars

Upsert(rawSegment, source) ==
    /\ LET newSegment == MakeSegment(rawSegment, source, currentSessionId, primaryLanguage)
       IN  /\ realtimeSegments' = updateRealtimeSegments(realtimeSegments, newSegment)
           /\ lastOp' = [op |-> "upsert"]
    /\ committedBy' = PruneCommitted(committedBy, realtimeSegments')
    /\ UNCHANGED <<latestRequestTimestamps, selectedTranslationModel, primaryLanguage,
                   currentSessionId, recording, intervalClosure, ticks, now, pcall>>
    /\ UNCHANGED contextVars
    /\ UNCHANGED settingVars

(***************************************************************************)
(* Recording session (onClickExecStartTranscription, the stop button).     *)
(***************************************************************************)
\* Mutant: a recording start skips a session number.
StartRecordingSkipping ==
    /\ ~recording
    /\ currentSessionId < MaxSessions
    /\ currentSessionId' = currentSessionId + 2
    /\ recording' = TRUE
    /\ lastOp' = [op |-> "start"]
    /\ UNCHANGED <<realtimeSegments, latestRequestTimestamps, selectedTranslationModel,
                   primaryLanguage, intervalClosure, ticks, now, committedBy, pcall>>
    /\ UNCHANGED contextVars
    /\ UNCHANGED settingVars

StartRecording ==
    /\ ~recording
    /\ currentSessionId < MaxSessions
    /\ currentSessionId' = currentSessionId + 1
    /\ recording' = TRUE
    /\ lastOp' = [op |-> "start"]
    /\ UNCHANGED <<realtimeSegments, latestRequestTimestamps, selectedTranslationModel,
                   primaryLanguage, intervalClosure, ticks, now, committedBy, pcall>>
    /\ UNCHANGED contextVars
    /\ UNCHANGED settingVars

StopRecording ==
    /\ recording
    /\ recording' = FALSE
    /\ lastOp' = [op |-> "stop"]
    /\ UNCHANGED <<realtimeSegments, latestRequestTimestamps, selectedTranslationModel,
                   primaryLanguage, currentSessionId, intervalClosure, ticks, now,
                   committedBy, pcall>>
    /\ UNCHANGED contextVars
    /\ UNCHANGED settingVars

\* Mutant: the clear button also empties the side index.
handleClearResettingIndex ==
    /\ recording \/ realtimeSegments # <<>>
    /\ realtimeSegments' = <<>>
    /\ latestRequestTimestamps' = EmptyMap
    /\ recording' = FALSE
    /\ currentSessionId' = 0
    /\ committedBy' = EmptyMap
    /\ lastOp' = [op |-> "clear"]
    /\ UNCHANGED <<selectedTranslationModel, primaryLanguage,
                   intervalClosure, ticks, now, pcall>>
    /\ UNCHANGED contextVars
    /\ UNCHANGED settingVars

\* The clear button is enabled while recording or while the transcript has
\* text.  In-flight calls and the side index are left alone.
handleClear ==
    /\ recording \/ realtimeSegments # <<>>
    /\ realtimeSegments' = <<>>
    /\ recording' = FALSE
    /\ currentSessionId' = 0
    /\ committedBy' = EmptyMap
    /\ lastOp' = [op |-> "clear"]
    /\ UNCHANGED <<latestRequestTimestamps, selectedTranslationModel, primaryLanguage,
                   intervalClosure, ticks, now, pcall>>
    /\ UNCHANGED contextVars
    /\ UNCHANGED settingVars

(***************************************************************************)
(* The ordered view of the timeline (Array.prototype.sort, which is        *)
(* stable, with the comparator of the renderer).                           *)
(***************************************************************************)
\* Mutant: the comparator looks at startTime only.
CompareSegmentsByTime(a, b) == a.startTime - b.startTime

CompareSegments(a, b) ==
    IF a.sessionId # b.sessionId
    THEN a.sessionId - b.sessionId
    ELSE a.startTime - b.startTime

RECURSIVE InsertSorted(_, _)
InsertSorted(sorted, segment) ==
    IF sorted = <<>> THEN <<segment>>
    ELSE IF CompareSegments(segment, Head(sorted)) < 0
         THEN <<segment>> \o sorted
         ELSE <<Head(sorted)>> \o InsertSorted(Tail(sorted), segment)

RECURSIVE SortSegments(_, _)
SortSegments(segments, sorted) ==
    IF segments = <<>> THEN sorted
    ELSE SortSegments(Tail(segments), InsertSorted(sorted, Head(segments)))

sortedSegments == SortSegments(realtimeSegments, <<>>)

(***************************************************************************)
(* getTranslationTarget (MeetingMinutesRealtimeTranslation.tsx).           *)
(***************************************************************************)
\* Mutant: the detected language is ignored.
getTranslationTargetFixed(type, detectedLanguageCode, primary, secondary) ==
    secondary

getTranslationTarget(type, detectedLanguageCode, primary, secondary) ==
    IF type # "bidirectional" \/ detectedLanguageCode = NoLanguage
    THEN secondary
    ELSE IF detectedLanguageCode = primary THEN secondary
    ELSE IF detectedLanguageCode = secondary THEN primary
    ELSE secondary

(***************************************************************************)
(* Translation context (the context generator and the assembly in          *)
(* translateSentence).                                                     *)
(***************************************************************************)
MinContextLength == 50
DefaultMaxSegments == 10

RECURSIVE InsertByStartTime(_, _)
InsertByStartTime(sorted, segment) ==
    IF sorted = <<>> THEN <<segment>>
    ELSE IF segment.startTime - Head(sorted).startTime < 0
         THEN <<segment>> \o sorted
         ELSE <<Head(sorted)>> \o InsertByStartTime(Tail(sorted), segment)

\* segments.filter(not partial, with transcripts).sort(by startTime)
RECURSIVE FinalizedByStartTime(_, _)
FinalizedByStartTime(segments, sorted) ==
    IF segments = <<>> THEN sorted
    ELSE FinalizedByStartTime(
             Tail(segments),
             IF ~Head(segments).isPartial /\ Len(Head(segments).transcripts) > 0
             THEN InsertByStartTime(sorted, Head(segments))
             ELSE sorted)

TranscriptTexts(segments) ==
    [i \in 1..Len(segments) |-> Join(segments[i].transcripts, <<" ">>)]

extractTranscriptText(segments) ==
    Trim(Join(TranscriptTexts(FinalizedByStartTime(segments, <<>>)), <<" ">>))

\* array.slice(-n)
SliceLast(seq, n) ==
    IF Len(seq) <= n THEN seq ELSE SubSeq(seq, Len(seq) - n + 1, Len(seq))

getRecentSegmentsContext(segments, maxSegments) ==
    Trim(Join(TranscriptTexts(SliceLast(FinalizedByStartTime(segments, <<>>),
                                        maxSegments)),
              <<" ">>))

shouldGenerateContext(isTranslationEnabled, isRecording, segments) ==
    IF ~isTranslationEnabled \/ ~isRecording \/ Len(segments) = 0
    THEN FALSE
    ELSE Len(extractTranscriptText(segments)) >= MinContextLength

\* The result of generateSystemContext: null, or the trimmed answer.
NullContext == <<"null">>

generateSystemContext(segments, outcome) ==
    IF Len(extractTranscriptText(segments)) < MinContextLength THEN NullContext
    ELSE IF ~outcome.ok THEN NullContext
    ELSE Trim(outcome.text)

\* The context argument of translate(): undefined, or the labelled sources
\* joined by blank lines.
UndefinedContext == <<"undefined">>

combinedContext(closure) ==
    LET contexts ==
            (IF Trim(closure.userDefinedContext) # <<>>
             THEN << <<"User-defined context: ">> \o Trim(closure.userDefinedContext) >>
             ELSE <<>>)
            \o (IF Trim(closure.systemGeneratedContext) # <<>>
                THEN << <<"System-generated context: ">>
                          \o Trim(closure.systemGeneratedContext) >>
                ELSE <<>>)
            \o (IF closure.recentSegmentsText # <<>>
                THEN << <<"Recent conversation context: ">> \o closure.recentSegmentsText >>
                ELSE <<>>)
    IN  IF Len(contexts) > 0 THEN Join(contexts, <<"\n", "\n">>) ELSE UndefinedContext

(***************************************************************************)
(* Model selection.  The interval effect depends on the selected model:    *)
(* each change tears the interval down and starts one whose callback       *)
(* closes over the translateSentence, and so over the state, of that       *)
(* render.                                                                 *)
(***************************************************************************)
\* Of the timeline it captured, translateSentence reads only the excerpt of
\* the recent entries.
CaptureClosure ==
    [latestRequestTimestamps |-> latestRequestTimestamps,
     userDefinedContext |-> userDefinedContext,
     systemGeneratedContext |-> systemGeneratedContext,
     recentSegmentsText |-> getRecentSegmentsContext(realtimeSegments, DefaultMaxSegments),
     translationType |-> translationType,
     primaryLanguage |-> primaryLanguage,
     secondaryLanguage |-> secondaryLanguage]

SetDefaultModel ==
    /\ selectedTranslationModel = ""
    /\ Len(AvailableModels) > 0
    /\ selectedTranslationModel' = AvailableModels[1]
    /\ intervalClosure' = CaptureClosure
    /\ lastOp' = [op |-> "model"]
    /\ UNCHANGED <<realtimeSegments, latestRequestTimestamps, primaryLanguage,
                   currentSessionId, recording, ticks, now, committedBy, pcall>>
    /\ UNCHANGED contextVars
    /\ UNCHANGED settingVars

ModelIndex(modelId) ==
    CHOOSE m \in 1..Len(AvailableModels) : AvailableModels[m] = modelId

\* The model select is shown while not recording.  The user moves down the
\* list of models, so the number of changes is bounded by its length.
SelectModel(modelId) ==
    /\ ~recording
    /\ selectedTranslationModel # ""
    /\ ModelIndex(modelId) > ModelIndex(selectedTranslationModel)
    /\ selectedTranslationModel' = modelId
    /\ intervalClosure' = CaptureClosure
    /\ lastOp' = [op |-> "model"]
    /\ UNCHANGED <<realtimeSegments, latestRequestTimestamps, primaryLanguage,
                   currentSessionId, recording, ticks, now, committedBy, pcall>>
    /\ UNCHANGED contextVars
    /\ UNCHANGED settingVars

(***************************************************************************)
(* Translation dispatcher (translateSentence and the interval effect).     *)
(***************************************************************************)
RequestId(resultId, sentenceIndex) == <<resultId, sentenceIndex>>

\* Calls awaiting their response for one sentence position.
InFlight(tickSeq, resultId, source, sentenceIndex) ==
    {i \in 1..Len(tickSeq) :
        LET item == tickSeq[i].work[tickSeq[i].pos]
        IN  /\ item.resultId = resultId
            /\ item.source = source
            /\ item.sentenceIndex = sentenceIndex}

WorkItem(segment, index) ==
    [resultId |-> segment.resultId,
     source |-> segment.source,
     languageCode |-> segment.languageCode,
     sentenceIndex |-> index,
     text |-> segment.translationSegments[index].text]

\* Mutant: the filter forgets needsTranslation.
RECURSIVE SentencesOfSegmentAll(_, _)
SentencesOfSegmentAll(segment, index) ==
    IF index > Len(segment.translationSegments) THEN <<>>
    ELSE (IF Trim(segment.translationSegments[index].text) # <<>>
          THEN <<WorkItem(segment, index)>>
          ELSE <<>>)
         \o SentencesOfSegmentAll(segment, index + 1)

\* Mutant: a sentence with a call in flight is skipped.
RECURSIVE SentencesOfSegmentIdle(_, _)
SentencesOfSegmentIdle(segment, index) ==
    IF index > Len(segment.translationSegments) THEN <<>>
    ELSE (IF /\ segment.translationSegments[index].needsTranslation
             /\ Trim(segment.translationSegments[index].text) # <<>>
             /\ InFlight(ticks, segment.resultId, segment.source, index) = {}
          THEN <<WorkItem(segment, index)>>
          ELSE <<>>)
         \o SentencesOfSegmentIdle(segment, index + 1)

\* segment.translationSegments.filter(...) with each sentence's indexOf.
RECURSIVE SentencesOfSegment(_, _)
SentencesOfSegment(segment, index) ==
    IF index > Len(segment.translationSegments) THEN <<>>
    ELSE LET translationSegment == segment.translationSegments[index]
         IN  (IF translationSegment.needsTranslation
                 /\ Trim(translationSegment.text) # <<>>
              THEN <<WorkItem(segment, index)>>
              ELSE <<>>)
             \o SentencesOfSegment(segment, index + 1)

\* The calls one interval callback makes, in order, for the timeline it read.
RECURSIVE SentencesToTranslate(_)
SentencesToTranslate(currentSegments) ==
    IF currentSegments = <<>> THEN <<>>
    ELSE SentencesOfSegment(Head(currentSegments), 1)
         \o SentencesToTranslate(Tail(currentSegments))

\* Mutant: the stamp is put on every sentence of the entry.
RecordRequestAll(prev, item, requestTimestamp) ==
    [s \in 1..Len(prev) |->
        IF prev[s].resultId # item.resultId \/ prev[s].source # item.source
        THEN prev[s]
        ELSE [prev[s] EXCEPT !.translationSegments =
                 [index \in 1..Len(prev[s].translationSegments) |->
                     [prev[s].translationSegments[index]
                         EXCEPT !.requestTimestamp = requestTimestamp]]]]

\* Mutant: the stamp is put on the sentence in every entry with the resultId.
RecordRequestAnySource(prev, item, requestTimestamp) ==
    [s \in 1..Len(prev) |->
        IF prev[s].resultId # item.resultId
        THEN prev[s]
        ELSE [prev[s] EXCEPT !.translationSegments =
                 [index \in 1..Len(prev[s].translationSegments) |->
                     IF index # item.sentenceIndex
                     THEN prev[s].translationSegments[index]
                     ELSE [prev[s].translationSegments[index]
                              EXCEPT !.requestTimestamp = requestTimestamp]]]]

\* translateSentence up to its await: the updater that stamps the sentence.
RecordRequest(prev, item, requestTimestamp) ==
    [s \in 1..Len(prev) |->
        IF prev[s].resultId # item.resultId \/ prev[s].source # item.source
        THEN prev[s]
        ELSE [prev[s] EXCEPT !.translationSegments =
                 [index \in 1..Len(prev[s].translationSegments) |->
                     IF index # item.sentenceIndex
                     THEN prev[s].translationSegments[index]
                     ELSE [prev[s].translationSegments[index]
                              EXCEPT !.requestTimestamp = requestTimestamp]]]]

\* translation || undefined
TranslationOrUndefined(translation) ==
    IF translation = "" THEN UndefinedTranslation ELSE translation

\* Mutant: the comparison of the sentence with the text sent is inverted.
CommitTranslationInverted(prev, item, translation) ==
    [s \in 1..Len(prev) |->
        IF prev[s].resultId # item.resultId \/ prev[s].source # item.source
        THEN prev[s]
        ELSE [prev[s] EXCEPT !.translationSegments =
                 [index \in 1..Len(prev[s].translationSegments) |->
                     LET ts == prev[s].translationSegments[index]
                     IN  IF index # item.sentenceIndex
                         THEN ts
                         ELSE [ts EXCEPT
                                  !.translation = TranslationOrUndefined(translation),
                                  !.needsTranslation = (ts.text = item.text),
                                  !.lastTranslatedText = item.text]]]]

\* Mutant: the commit does not compare the sentence with the text sent.
CommitTranslationDone(prev, item, translation) ==
    [s \in 1..Len(prev) |->
        IF prev[s].resultId # item.resultId \/ prev[s].source # item.source
        THEN prev[s]
        ELSE [prev[s] EXCEPT !.translationSegments =
                 [index \in 1..Len(prev[s].translationSegments) |->
                     LET ts == prev[s].translationSegments[index]
                     IN  IF index # item.sentenceIndex
                         THEN ts
                         ELSE [ts EXCEPT
                                  !.translation = TranslationOrUndefined(translation),
                                  !.needsTranslation = FALSE,
                                  !.lastTranslatedText = item.text]]]]

\* translateSentence after its await: the updater that commits the result.
CommitTranslation(prev, item, translation) ==
    [s \in 1..Len(prev) |->
        IF prev[s].resultId # item.resultId \/ prev[s].source # item.source
        THEN prev[s]
        ELSE [prev[s] EXCEPT !.translationSegments =
                 [index \in 1..Len(prev[s].translationSegments) |->
                     LET ts == prev[s].translationSegments[index]
                     IN  IF index # item.sentenceIndex
                         THEN ts
                         ELSE [ts EXCEPT
                                  !.translation = TranslationOrUndefined(translation),
                                  !.needsTranslation = (ts.text # item.text),
                                  !.lastTranslatedText = item.text]]]]

\* The check made when the call resolves, on the map the callback closed over.
IsLatestRequest(closureTimestamps, requestId, requestTimestamp) ==
    LET currentLatestTimestamp == MapGet(closureTimestamps, requestId)
    IN  currentLatestTimestamp = NoTimestamp \/ requestTimestamp >= currentLatestTimestamp

\* Mutant: a failed call is committed like a result.
ShouldCommitAnyResult(closureTimestamps, requestId, requestTimestamp, translation) ==
    IsLatestRequest(closureTimestamps, requestId, requestTimestamp)

ShouldCommit(closureTimestamps, requestId, requestTimestamp, translation) ==
    IsLatestRequest(closureTimestamps, requestId, requestTimestamp) /\ translation # Null

SegmentAt(segments, resultId, source, sentenceIndex) ==
    LET translationSegments == SegmentsOf(segments, resultId, source)
    IN  IF sentenceIndex <= Len(translationSegments)
        THEN translationSegments[sentenceIndex]
        ELSE [text |-> UndefinedText]

HasSegment(segments, resultId, source, sentenceIndex) ==
    sentenceIndex <= Len(SegmentsOf(segments, resultId, source))

\* The settings translateSentence captured, and the target language it
\* resolves from them for a sentence of an entry.
ClosureSettings(closure) ==
    [translationType |-> closure.translationType,
     primaryLanguage |-> closure.primaryLanguage,
     secondaryLanguage |-> closure.secondaryLanguage]

TargetLanguage(closure, item) ==
    getTranslationTarget(closure.translationType, item.languageCode,
                         closure.primaryLanguage, closure.secondaryLanguage)

\* One firing of the interval: read the timeline, call translateSentence for
\* the first sentence to translate and await it.
Tick(timestamp) ==
    /\ selectedTranslationModel # ""
    /\ now' = timestamp
    /\ Len(ticks) < MaxTicks
    /\ LET currentSegments == realtimeSegments
           work == SentencesToTranslate(currentSegments)
       IN  /\ work # <<>>
           /\ latestRequestTimestamps' =
                  MapSet(latestRequestTimestamps,
                         RequestId(work[1].resultId, work[1].sentenceIndex), timestamp)
           /\ realtimeSegments' = RecordRequest(realtimeSegments, work[1], timestamp)
           /\ ticks' = Append(ticks,
                  [work |-> work, pos |-> 1, requestTimestamp |-> timestamp,
                   closureTimestamps |-> intervalClosure.latestRequestTimestamps,
                   context |-> combinedContext(intervalClosure),
                   closureSettings |-> ClosureSettings(intervalClosure),
                   targetLanguage |-> TargetLanguage(intervalClosure, work[1])])
           /\ lastOp' = [op |-> "tick", snapshot |-> currentSegments, work |-> work,
                         ticksBefore |-> ticks]
    /\ UNCHANGED <<selectedTranslationModel, primaryLanguage, currentSessionId,
                   recording, intervalClosure, committedBy, pcall>>
    /\ UNCHANGED contextVars
    /\ UNCHANGED settingVars

RemoveAt(seq, i) == SubSeq(seq, 1, i - 1) \o SubSeq(seq, i + 1, Len(seq))

\* The call awaited by ticks[i] resolves with `translation` (Null when the
\* call failed): translateSentence finishes, then the loop goes on to its
\* next sentence or ends.
Respond(i, translation) ==
    /\ i \in 1..Len(ticks)
    /\ LET t == ticks[i]
           item == t.work[t.pos]
           requestId == RequestId(item.resultId, item.sentenceIndex)
           commit == ShouldCommit(t.closureTimestamps, requestId,
                                  t.requestTimestamp, translation)
           afterCommit == IF commit
                          THEN CommitTranslation(realtimeSegments, item, translation)
                          ELSE realtimeSegments
           position == Position(item.resultId, item.source, item.sentenceIndex)
           exists == HasSegment(realtimeSegments, item.resultId, item.source,
                                item.sentenceIndex)
       IN  /\ IF t.pos < Len(t.work)
              THEN LET next == t.work[t.pos + 1]
                   IN  /\ latestRequestTimestamps' =
                              MapSet(latestRequestTimestamps,
                                     RequestId(next.resultId, next.sentenceIndex), now)
                       /\ realtimeSegments' = RecordRequest(afterCommit, next, now)
                       /\ ticks' = [ticks EXCEPT ![i] =
                              [t EXCEPT !.pos = t.pos + 1, !.requestTimestamp = now,
                                        !.targetLanguage =
                                            TargetLanguage(t.closureSettings, next)]]
              ELSE /\ latestRequestTimestamps' = latestRequestTimestamps
                   /\ realtimeSegments' = afterCommit
                   /\ ticks' = RemoveAt(ticks, i)
           /\ committedBy' = IF commit /\ exists
                             THEN MapSet(committedBy, position, t.requestTimestamp)
                             ELSE committedBy
           /\ lastOp' = [op |-> "respond",
                         item |-> item,
                         requestTimestamp |-> t.requestTimestamp,
                         translation |-> translation,
                         committed |-> commit /\ exists,
                         latestAtCommit |-> MapGet(latestRequestTimestamps, requestId),
                         prevCommittedBy |-> MapGet(committedBy, position),
                         prevSegment |-> SegmentAt(realtimeSegments, item.resultId,
                                                   item.source, item.sentenceIndex)]
    /\ UNCHANGED <<selectedTranslationModel, primaryLanguage, currentSessionId,
                   recording, intervalClosure, now, pcall>>
    /\ UNCHANGED contextVars
    /\ UNCHANGED settingVars

\* The interval fires at a later time than every earlier firing.
TickAtNextTime ==
    /\ now < MaxTime
    /\ Tick(now + 1)

Next ==
    \/ \E rawSegment \in RawSegments : Upsert(rawSegment, "microphone")
    \/ SetDefaultModel
    \/ \E m \in 1..Len(AvailableModels) : SelectModel(AvailableModels[m])
    \/ TickAtNextTime
    \/ \E i \in 1..MaxTicks, translation \in Results \cup {Null} : Respond(i, translation)

Spec == Init /\ [][Next]_vars

\* The same dispatcher fed by both audio sources, which number their results
\* independently, so that one resultId occurs once per source.
OneSentenceSegments ==
    [resultId : ResultIds, startTime : {1}, endTime : {2}, isPartial : {TRUE},
     transcripts : {<<UnitA>>, <<UnitB>>}, languageCode : {NoLanguage}]

SourcesNext ==
    \/ \E rawSegment \in OneSentenceSegments, source \in Sources :
           Upsert(rawSegment, source)
    \/ SetDefaultModel
    \/ TickAtNextTime
    \/ \E i \in 1..MaxTicks, translation \in Results \cup {Null} : Respond(i, translation)

SourcesSpec == Init /\ [][SourcesNext]_vars

\* The timeline over recording sessions: the user starts, stops and clears;
\* results arrive while recording, from either source.
TimelineResultIds == {"r1", "r2"}

TimelineSegments ==
    [resultId : TimelineResultIds, startTime : {1, 2}, endTime : {2}, isPartial : {TRUE},
     transcripts : {<<UnitA>>}, languageCode : {NoLanguage}]

TimelineNext ==
    \/ StartRecording
    \/ StopRecording
    \/ handleClear
    \/ \E rawSegment \in TimelineSegments, source \in Sources :
           recording /\ Upsert(rawSegment, source)

TimelineSpec == Init /\ [][TimelineNext]_vars

\* The dispatcher over recording sessions.
SessionNext ==
    \/ StartRecording
    \/ StopRecording
    \/ handleClear
    \/ \E rawSegment \in OneSentenceSegments :
           recording /\ Upsert(rawSegment, "microphone")
    \/ SetDefaultModel
    \/ TickAtNextTime
    \/ \E i \in 1..MaxTicks, translation \in Results \cup {Null} : Respond(i, translation)

SessionSpec == Init /\ [][SessionNext]_vars

(***************************************************************************)
(* Properties of the dispatcher.                                           *)
(***************************************************************************)
ItemSegment(item) ==
    SegmentAt(realtimeSegments, item.resultId, item.source, item.sentenceIndex)

ItemExists(item) ==
    HasSegment(realtimeSegments, item.resultId, item.source, item.sentenceIndex)

\* C1: staleness rejection.  Of two requests for one sentence the result of the
\* one issued later is the one that stays: a response is never committed over
\* the committed result of a request with a strictly larger requestTimestamp.
C1_StalenessRejection ==
    (lastOp.op = "respond" /\ lastOp.committed)
        => lastOp.requestTimestamp >= lastOp.prevCommittedBy

\* C2: a non-null result is committed if and only if its requestTimestamp is >=
\* the latest requestTimestamp recorded for its sentence when it resolves.
C2_CommitIffLatest ==
    (lastOp.op = "respond" /\ lastOp.translation # Null
                           /\ lastOp.prevSegment.text # UndefinedText)
        => (lastOp.committed <=> lastOp.requestTimestamp >= lastOp.latestAtCommit)

\* The latest-request timestamp the side index holds for a sentence of the
\* entry (resultId, source).
LatestFor(resultId, source, sentenceIndex) ==
    MapGet(latestRequestTimestamps, RequestId(resultId, sentenceIndex))

\* C3: the latest-request timestamp is per (resultId, source, sentence index):
\* a step that issues no request for a sentence (its segment's requestTimestamp
\* is unchanged) leaves the latest timestamp of that sentence unchanged.
C3_TimestampPerEntry ==
    [][\A resultId \in ResultIds, source \in Sources, sentenceIndex \in 1..2 :
          (/\ HasSegment(realtimeSegments, resultId, source, sentenceIndex)
           /\ HasSegment(realtimeSegments', resultId, source, sentenceIndex)
           /\ SegmentAt(realtimeSegments', resultId, source, sentenceIndex).requestTimestamp
                = SegmentAt(realtimeSegments, resultId, source, sentenceIndex).requestTimestamp)
          => LatestFor(resultId, source, sentenceIndex)'
                = LatestFor(resultId, source, sentenceIndex)]_vars

SamePosition(a, b) ==
    a.resultId = b.resultId /\ a.source = b.source /\ a.sentenceIndex = b.sentenceIndex

\* C4 as stated: a commit stores the result as the translation, the text sent
\* as lastTranslatedText, and needsTranslation = (current text # text sent).
C4_CommitStoresResult ==
    (lastOp.op = "respond" /\ lastOp.committed)
        => LET ts == ItemSegment(lastOp.item)
           IN  /\ ts.translation = lastOp.translation
               /\ ts.lastTranslatedText = lastOp.item.text
               /\ ts.needsTranslation = (ts.text # lastOp.item.text)

\* C4 amended: as C4, but an empty result leaves the translation unset; the
\* sentence's text and requestTimestamp are not touched.
C4_CommitStoresResultOrUnset ==
    (lastOp.op = "respond" /\ lastOp.committed)
        => LET ts == ItemSegment(lastOp.item)
           IN  /\ ts.translation = IF lastOp.translation = ""
                                   THEN UndefinedTranslation
                                   ELSE lastOp.translation
               /\ ts.lastTranslatedText = lastOp.item.text
               /\ ts.needsTranslation = (ts.text # lastOp.item.text)
               /\ ts.text = lastOp.prevSegment.text
               /\ ts.requestTimestamp = lastOp.prevSegment.requestTimestamp

\* A result was committed for a sentence revised while its call was in flight.
C4_Witness ==
    /\ lastOp.op = "respond"
    /\ lastOp.committed
    /\ lastOp.translation = "x"
    /\ ItemSegment(lastOp.item).text # lastOp.item.text
    /\ ItemSegment(lastOp.item).needsTranslation

WorkFor(work, snapshot, e, index) ==
    {k \in 1..Len(work) :
        /\ work[k].resultId = snapshot[e].resultId
        /\ work[k].source = snapshot[e].source
        /\ work[k].sentenceIndex = index
        /\ work[k].text = snapshot[e].translationSegments[index].text}

C7_CallsIndependent ==
    lastOp.op = "tick"
        => \A k \in 1..Len(lastOp.work) :
               \E i \in 1..Len(ticks) :
                   /\ ticks[i].requestTimestamp = now
                   /\ SamePosition(ticks[i].work[ticks[i].pos], lastOp.work[k])

\* The first sentence, in timeline order, with needsTranslation and a non-blank
\* text; Len + 1 when there is none.
FirstPending(translationSegments) ==
    LET pending == {i \in 1..Len(translationSegments) :
                       /\ translationSegments[i].needsTranslation
                       /\ ~IsBlank(translationSegments[i].text)}
    IN  IF pending = {} THEN Len(translationSegments) + 1
        ELSE CHOOSE i \in pending : \A j \in pending : i <= j

TickForEver ==
    Tick(IF now < MaxTime THEN now + 1 ELSE now)

RespondToOldest ==
    \E translation \in Results \cup {Null} : Respond(1, translation)

\* The state right after the recording was started.
LiveInit ==
    /\ realtimeSegments = <<>>
    /\ latestRequestTimestamps = EmptyMap
    /\ selectedTranslationModel = ""
    /\ primaryLanguage = "en-US"
    /\ currentSessionId = 1
    /\ recording = TRUE
    /\ intervalClosure = [latestRequestTimestamps |-> EmptyMap,
                          userDefinedContext |-> <<>>,
                          systemGeneratedContext |-> <<>>,
                          recentSegmentsText |-> <<>>,
                          translationType |-> "unidirectional",
                          primaryLanguage |-> "en-US",
                          secondaryLanguage |-> "ja-JP"]
    /\ translationType = "unidirectional"
    /\ secondaryLanguage = "ja-JP"
    /\ userDefinedContext = <<>>
    /\ systemGeneratedContext = <<>>
    /\ contextCalls = <<>>
    /\ ticks = <<>>
    /\ now = 0
    /\ committedBy = EmptyMap
    /\ lastOp = [op |-> "start"]
    /\ pcall = [op |-> "none"]

LiveNext ==
    \/ StopRecording
    \/ \E rawSegment \in OneSentenceSegments :
           recording /\ Upsert(rawSegment, "microphone")
    \/ SetDefaultModel
    \/ TickForEver
    \/ \E i \in 1..MaxTicks, translation \in Results \cup {Null} :
           Respond(i, translation)

\* The mount effect selects a model, setInterval keeps firing, and every call
\* resolves.
LiveSpec ==
    /\ LiveInit
    /\ [][LiveNext]_vars
    /\ WF_vars(SetDefaultModel)
    /\ WF_vars(TickForEver)
    /\ WF_vars(RespondToOldest)

AllTranslated ==
    \A e \in 1..Len(realtimeSegments) :
        \A index \in 1..Len(realtimeSegments[e].translationSegments) :
            LET ts == realtimeSegments[e].translationSegments[index]
            IN  ~IsBlank(ts.text)
                    => ~ts.needsTranslation /\ ts.lastTranslatedText = ts.text

MaxApply == 3

PureLanguages == {NoLanguage, "en-US", "ja-JP"}

PureTexts ==
    {<<>>, <<" ">>, UnitA, UnitA \o UnitB, <<" ">> \o UnitA, UnitA \o <<"b">>,
     UnitA \o <<" ">> \o UnitC, <<"a", "IDEO_STOP", "b", ".">>}

SegmentKinds == {"fresh", "inFlight", "translated", "emptyResult", "revised"}

\* A record of the sentence: never requested, requested and not yet
\* answered, translated, answered with an empty string, or translated and
\* then revised by the recognizer.
SegmentInState(sentence, kind) ==
    LET fresh == NewSentenceSegment(sentence)
        requested == [fresh EXCEPT !.requestTimestamp = 1]
    IN  CASE kind = "fresh" -> fresh
          [] kind = "inFlight" -> requested
          [] kind = "translated" ->
                 [requested EXCEPT !.translation = "x",
                                   !.needsTranslation = FALSE,
                                   !.lastTranslatedText = sentence]
          [] kind = "emptyResult" ->
                 [requested EXCEPT !.needsTranslation = FALSE,
                                   !.lastTranslatedText = sentence]
          [] kind = "revised" ->
                 [requested EXCEPT !.translation = "x",
                                   !.lastTranslatedText = UnitC]

ExistingSegmentsOf(previousText, previousLanguage) ==
    LET sentences == splitIntoSentences(previousText, previousLanguage)
    IN  {[index \in 1..Len(sentences) |-> SegmentInState(sentences[index], kinds[index])] :
            kinds \in [1..Len(sentences) -> SegmentKinds]}

CallReconcile(newText, languageCode, existingSegments) ==
    /\ pcall.op = "none"
    /\ pcall' = [op |-> "updateTranslationSegments",
                 newText |-> newText,
                 languageCode |-> languageCode,
                 existingSegments |-> existingSegments,
                 result |-> updateTranslationSegments(newText, languageCode,
                                                      existingSegments),
                 applied |-> 1]
    /\ UNCHANGED <<realtimeSegments, latestRequestTimestamps, selectedTranslationModel,
                   primaryLanguage, currentSessionId, recording, intervalClosure,
                   ticks, now, committedBy, lastOp>>
    /\ UNCHANGED contextVars
    /\ UNCHANGED settingVars

ReapplyReconcile ==
    /\ pcall.op = "updateTranslationSegments"
    /\ pcall.applied < MaxApply
    /\ pcall' = [pcall EXCEPT
                    !.result = updateTranslationSegments(pcall.newText,
                                                         pcall.languageCode,
                                                         pcall.result),
                    !.applied = pcall.applied + 1]
    /\ UNCHANGED <<realtimeSegments, latestRequestTimestamps, selectedTranslationModel,
                   primaryLanguage, currentSessionId, recording, intervalClosure,
                   ticks, now, committedBy, lastOp>>
    /\ UNCHANGED contextVars
    /\ UNCHANGED settingVars

ReconcileNext ==
    \/ \E newText \in PureTexts, languageCode \in PureLanguages,
          previousText \in PureTexts, previousLanguage \in PureLanguages :
           \E existingSegments \in ExistingSegmentsOf(previousText, previousLanguage) :
               CallReconcile(newText, languageCode, existingSegments)
    \/ ReapplyReconcile

ReconcileSpec == Init /\ [][ReconcileNext]_vars

TextsOf(segments) == [index \in 1..Len(segments) |-> segments[index].text]

\* The new text splits into exactly the texts of the existing records.
SameSentences ==
    splitIntoSentences(pcall.newText, pcall.languageCode) = TextsOf(pcall.existingSegments)

\* C10: stability on a no-op update.  When the new text splits into exactly
\* the texts of the existing records, in the same order, the result of
\* updateTranslationSegments equals the existing records field for field
\* (text, needsTranslation, translation, lastTranslatedText,
\* requestTimestamp), and it still does after the same update has been
\* applied to its own result any number of times.
C10_NoOpUpdateStable ==
    (pcall.op = "updateTranslationSegments" /\ SameSentences)
        => pcall.result = pcall.existingSegments

\* A no-op update applied more than once to two records, one translated and
\* one whose request is still in flight.
C10_Witness ==
    /\ pcall.op = "updateTranslationSegments"
    /\ SameSentences
    /\ pcall.applied > 1
    /\ Len(pcall.existingSegments) = 2
    /\ pcall.existingSegments[1] = SegmentInState(UnitA, "translated")
    /\ pcall.existingSegments[2] = SegmentInState(UnitB, "inFlight")
    /\ pcall.result = pcall.existingSegments

\* The sentences of the new text of the call.
CallSentences == splitIntoSentences(pcall.newText, pcall.languageCode)

FirstCall == pcall.op = "updateTranslationSegments" /\ pcall.applied = 1

\* The call of the example: "a. c." in en-US over the translated records of
\* "a." and "b.".
ChangeIsolationExample ==
    /\ FirstCall
    /\ pcall.languageCode = "en-US"
    /\ pcall.newText = UnitA \o <<" ">> \o UnitC
    /\ pcall.existingSegments = <<SegmentInState(UnitA, "translated"),
                                  SegmentInState(UnitB, "translated")>>

\* C11: change isolation.  For the existing records of "a." and "b.", both
\* translated, and the new text "a. c." in a supported language, the result
\* keeps record 1 untouched and holds at index 2 a record with
\* needsTranslation = TRUE and the text "c."; in every call a record whose
\* sentence text is unchanged at its index is returned untouched.
C11_ChangeIsolation ==
    /\ ChangeIsolationExample =>
           /\ Len(pcall.result) = 2
           /\ pcall.result[1] = pcall.existingSegments[1]
           /\ pcall.result[2].needsTranslation
           /\ pcall.result[2].text = UnitC
    /\ FirstCall =>
           \A index \in 1..Len(pcall.result) :
               (index <= Len(pcall.existingSegments)
                /\ pcall.existingSegments[index].text = CallSentences[index])
                   => pcall.result[index] = pcall.existingSegments[index]

\* C11 as the splitter has it: the span closed by the second terminator
\* starts at the space after "a.", so the record at index 2 has the text
\* " c."; record 1 is untouched, and in every call a record whose sentence
\* text is unchanged at its index is returned untouched.
C11_ChangeIsolationSpan ==
    /\ ChangeIsolationExample =>
           /\ Len(pcall.result) = 2
           /\ pcall.result[1] = pcall.existingSegments[1]
           /\ pcall.result[2].needsTranslation
           /\ pcall.result[2].text = <<" ">> \o UnitC
    /\ FirstCall =>
           \A index \in 1..Len(pcall.result) :
               (index <= Len(pcall.existingSegments)
                /\ pcall.existingSegments[index].text = CallSentences[index])
                   => pcall.result[index] = pcall.existingSegments[index]

\* The call of the example has returned: record 1 is the translated record
\* of "a." and record 2 needs translation.
C11_Witness ==
    /\ ChangeIsolationExample
    /\ pcall.result[1] = SegmentInState(UnitA, "translated")
    /\ pcall.result[1].translation = "x"
    /\ ~pcall.result[1].needsTranslation
    /\ pcall.result[2].needsTranslation

\* C12: a record whose previous text differs from the new sentence keeps the
\* previous translation, lastTranslatedText and requestTimestamp, has the new
\* sentence as text and needsTranslation = TRUE.
C12_ChangedKeepsStaleReference ==
    FirstCall =>
        \A index \in 1..Len(pcall.result) :
            (index <= Len(pcall.existingSegments)
             /\ pcall.existingSegments[index].text # CallSentences[index])
                => LET previous == pcall.existingSegments[index]
                       record == pcall.result[index]
                   IN  /\ record.text = CallSentences[index]
                       /\ record.needsTranslation
                       /\ record.translation = previous.translation
                       /\ record.lastTranslatedText = previous.lastTranslatedText
                       /\ record.requestTimestamp = previous.requestTimestamp

\* A translated record of "b." is revised to " c." and still shows "x".
C12_Witness ==
    /\ ChangeIsolationExample
    /\ pcall.result[2].text = <<" ">> \o UnitC
    /\ pcall.result[2].translation = "x"
    /\ pcall.result[2].lastTranslatedText = UnitB
    /\ pcall.result[2].needsTranslation

\* C13: an index without a previous record yields a record with the new
\* sentence as text, translation, lastTranslatedText and requestTimestamp
\* unset, and needsTranslation = TRUE exactly when the sentence is not blank.
C13_NewSentenceIsFresh ==
    FirstCall =>
        \A index \in 1..Len(pcall.result) :
            index > Len(pcall.existingSegments)
                => LET record == pcall.result[index]
                   IN  /\ record.text = CallSentences[index]
                       /\ record.translation = UndefinedTranslation
                       /\ record.lastTranslatedText = UndefinedText
                       /\ record.requestTimestamp = NoTimestamp
                       /\ record.needsTranslation <=> ~IsBlank(CallSentences[index])

\* "a.b." over the one translated record of "a.": record 2 is new.
C13_Witness ==
    /\ FirstCall
    /\ pcall.newText = UnitA \o UnitB
    /\ pcall.languageCode = "en-US"
    /\ pcall.existingSegments = <<SegmentInState(UnitA, "translated")>>
    /\ Len(pcall.result) = 2
    /\ pcall.result[2].text = UnitB
    /\ pcall.result[2].needsTranslation

(***************************************************************************)
(* Properties of the timeline.                                             *)
(***************************************************************************)
EntrySentences(entry) ==
    splitIntoSentences(CurrentText(entry.transcripts), entry.languageCode)

\* C14: in every reachable state the texts of an entry's translationSegments,
\* in order, are the sentences the splitter produces on the entry's
\* concatenated raw text for the entry's languageCode, whatever upserts,
\* dispatches and commits happened.
C14_SegmentsMatchSplit ==
    \A e \in 1..Len(realtimeSegments) :
        TextsOf(realtimeSegments[e].translationSegments)
            = EntrySentences(realtimeSegments[e])

\* A commit into an entry of two sentences.
C14_Witness ==
    /\ lastOp.op = "respond"
    /\ lastOp.committed
    /\ \E e \in 1..Len(realtimeSegments) :
           /\ Len(realtimeSegments[e].translationSegments) = 2
           /\ \E index \in 1..2 :
                  realtimeSegments[e].translationSegments[index].translation = "x"

Keys(segments) ==
    {<<segments[i].resultId, segments[i].source>> : i \in 1..Len(segments)}

\* C15: the timeline holds at most one entry per (resultId, source); an
\* upsert of an existing key leaves the number of entries unchanged, an
\* upsert of a new key adds exactly one entry, and the same resultId from
\* the other source is a new key.
C15_OneEntryPerKey ==
    /\ [](Cardinality(Keys(realtimeSegments)) = Len(realtimeSegments))
    /\ [][lastOp'.op = "upsert" =>
              \E key \in TimelineResultIds \X Sources :
                  /\ Keys(realtimeSegments') = Keys(realtimeSegments) \cup {key}
                  /\ Len(realtimeSegments')
                        = Len(realtimeSegments)
                              + (IF key \in Keys(realtimeSegments) THEN 0 ELSE 1)]_vars

\* After an upsert the timeline holds one resultId once per source.
C15_Witness ==
    /\ lastOp.op = "upsert"
    /\ \E i, j \in 1..Len(realtimeSegments) :
           /\ realtimeSegments[i].resultId = realtimeSegments[j].resultId
           /\ realtimeSegments[i].source = "microphone"
           /\ realtimeSegments[j].source = "screen"

\* C16: an upsert reconciles the entry it replaces against the update's
\* concatenated text, so a sentence whose text is unchanged at its index
\* keeps its whole record; an entry with a new key is reconciled against the
\* empty list.
C16_ProgressSurvivesRevision ==
    [][lastOp'.op = "upsert" =>
          \A e \in 1..Len(realtimeSegments') :
              LET entry == realtimeSegments'[e]
                  previous == SegmentsOf(realtimeSegments, entry.resultId, entry.source)
              IN  /\ entry.translationSegments
                        = updateTranslationSegments(CurrentText(entry.transcripts),
                                                    entry.languageCode, previous)
                  /\ \A index \in 1..Len(entry.translationSegments) :
                         (index <= Len(previous)
                          /\ previous[index].text = entry.translationSegments[index].text)
                             => entry.translationSegments[index] = previous[index]]_vars

\* An upsert has left a translated sentence translated.
C16_Witness ==
    /\ lastOp.op = "upsert"
    /\ \E e \in 1..Len(realtimeSegments) :
           LET ts == realtimeSegments[e].translationSegments[1]
           IN  /\ ~ts.needsTranslation
               /\ ts.translation = "x"
               /\ ts.lastTranslatedText = ts.text

\* C17: the ordered view holds the entries of the timeline sorted by
\* sessionId and then by startTime, so every entry of an earlier session
\* comes before every entry of a later one whatever their startTime.
C17_SessionsOrdered ==
    /\ Len(sortedSegments) = Len(realtimeSegments)
    /\ \A e \in 1..Len(realtimeSegments) :
           \E i \in 1..Len(sortedSegments) : sortedSegments[i] = realtimeSegments[e]
    /\ \A i, j \in 1..Len(sortedSegments) :
           i < j => \/ sortedSegments[i].sessionId < sortedSegments[j].sessionId
                    \/ /\ sortedSegments[i].sessionId = sortedSegments[j].sessionId
                       /\ sortedSegments[i].startTime <= sortedSegments[j].startTime

\* An entry of session 1 comes before an entry of session 2 that starts
\* earlier.
C17_Witness ==
    \E i, j \in 1..Len(sortedSegments) :
        /\ i < j
        /\ sortedSegments[i].sessionId = 1
        /\ sortedSegments[j].sessionId = 2
        /\ sortedSegments[i].startTime > sortedSegments[j].startTime

\* C18: every recording start raises currentSessionId by exactly one, the
\* clear sets it to 0, and no other action changes it.
C18_SessionIdPerStart ==
    [][/\ lastOp'.op = "start" => currentSessionId' = currentSessionId + 1
       /\ lastOp'.op = "clear" => currentSessionId' = 0
       /\ lastOp'.op \notin {"start", "clear"} => currentSessionId' = currentSessionId]_vars

\* The second recording has started.
C18_Witness ==
    /\ lastOp.op = "start"
    /\ currentSessionId = 2
    /\ realtimeSegments # <<>>

\* C19: after a recording stop, and after a clear, the timeline is empty, the
\* side index of latest request timestamps is empty and currentSessionId
\* is 0.
C19_StopAndClearReset ==
    lastOp.op \in {"stop", "clear"} =>
        /\ realtimeSegments = <<>>
        /\ latestRequestTimestamps = EmptyMap
        /\ currentSessionId = 0

(***************************************************************************)
(* splitIntoSentences called on its own, on every text of at most MaxLen   *)
(* characters and on the text "a. b?".                                     *)
(***************************************************************************)
MaxLen == 3

Alphabet == {"a", " ", ".", "?", "IDEO_STOP"}

SplitTexts ==
    UNION {[1..n -> Alphabet] : n \in 0..MaxLen}
        \cup {<<"a", ".", " ", "b", "?">>, <<"a", "IDEO_STOP", "b", "IDEO_STOP">>}

\* Absent, unsupported and supported language codes.
SplitLanguages == {NoLanguage, "fr-FR", "en-US", "ja-JP"}

CallSplit(text, languageCode) ==
    /\ pcall.op = "none"
    /\ pcall' = [op |-> "splitIntoSentences",
                 text |-> text,
                 languageCode |-> languageCode,
                 result |-> splitIntoSentences(text, languageCode)]
    /\ UNCHANGED <<realtimeSegments, latestRequestTimestamps, selectedTranslationModel,
                   primaryLanguage, currentSessionId, recording, intervalClosure,
                   ticks, now, committedBy, lastOp>>
    /\ UNCHANGED contextVars
    /\ UNCHANGED settingVars

\* Mutant: the pattern is shared between calls and the second call resumes
\* where the first one stopped, at the end of the text.
CallSplitAgainResuming ==
    /\ pcall.op = "splitIntoSentences"
    /\ pcall' = [pcall EXCEPT !.op = "splitAgain"] @@ [again |-> <<>>]
    /\ UNCHANGED <<realtimeSegments, latestRequestTimestamps, selectedTranslationModel,
                   primaryLanguage, currentSessionId, recording, intervalClosure,
                   ticks, now, committedBy, lastOp>>
    /\ UNCHANGED contextVars
    /\ UNCHANGED settingVars

\* A second call with the arguments of the call before it.
CallSplitAgain ==
    /\ pcall.op = "splitIntoSentences"
    /\ pcall' = [pcall EXCEPT !.op = "splitAgain"]
                   @@ [again |-> splitIntoSentences(pcall.text, pcall.languageCode)]
    /\ UNCHANGED <<realtimeSegments, latestRequestTimestamps, selectedTranslationModel,
                   primaryLanguage, currentSessionId, recording, intervalClosure,
                   ticks, now, committedBy, lastOp>>
    /\ UNCHANGED contextVars
    /\ UNCHANGED settingVars

CallCountSentences(text, languageCode) ==
    /\ pcall.op = "none"
    /\ pcall' = [op |-> "countSentences",
                 text |-> text,
                 languageCode |-> languageCode,
                 result |-> countSentences(text, languageCode)]
    /\ UNCHANGED <<realtimeSegments, latestRequestTimestamps, selectedTranslationModel,
                   primaryLanguage, currentSessionId, recording, intervalClosure,
                   ticks, now, committedBy, lastOp>>
    /\ UNCHANGED contextVars
    /\ UNCHANGED settingVars

CallContainsSentenceDelimiters(text, languageCode) ==
    /\ pcall.op = "none"
    /\ pcall' = [op |-> "containsSentenceDelimiters",
                 text |-> text,
                 languageCode |-> languageCode,
                 result |-> containsSentenceDelimiters(text, languageCode)]
    /\ UNCHANGED <<realtimeSegments, latestRequestTimestamps, selectedTranslationModel,
                   primaryLanguage, currentSessionId, recording, intervalClosure,
                   ticks, now, committedBy, lastOp>>
    /\ UNCHANGED contextVars
    /\ UNCHANGED settingVars

SplitNext ==
    \/ \E text \in SplitTexts, languageCode \in SplitLanguages :
           CallSplit(text, languageCode)
    \/ CallSplitAgain
    \/ \E text \in SplitTexts, languageCode \in SplitLanguages :
           CallCountSentences(text, languageCode)
    \/ \E text \in SplitTexts, languageCode \in SplitLanguages :
           CallContainsSentenceDelimiters(text, languageCode)

SplitSpec == Init /\ [][SplitNext]_vars

\* C20: for an absent or unsupported languageCode the result is the one
\* element sequence of the trimmed text, and the empty sequence for an empty
\* or whitespace-only text; "a. b?" in fr-FR is returned as one sentence.
C20_UnsupportedReturnsTrimmedText ==
    (pcall.op = "splitIntoSentences" /\ ~supportsSentenceTranslation(pcall.languageCode))
        => pcall.result = IF IsBlank(pcall.text) THEN <<>> ELSE <<Trim(pcall.text)>>

\* The sentences of a text read left to right: a terminator closes the span
\* accumulated so far, itself included; what is left at the end is a span
\* too; a span of nothing but whitespace is dropped.
RECURSIVE ScanSentences(_, _, _)
ScanSentences(text, terminators, span) ==
    IF text = <<>>
    THEN IF IsBlank(span) THEN <<>> ELSE <<span>>
    ELSE IF Head(text) \in terminators
         THEN (IF IsBlank(Append(span, Head(text))) THEN <<>>
               ELSE <<Append(span, Head(text))>>)
              \o ScanSentences(Tail(text), terminators, <<>>)
         ELSE ScanSentences(Tail(text), terminators, Append(span, Head(text)))

JapaneseExample == <<"a", "IDEO_STOP", "b", "IDEO_STOP">>

\* C21: for a supported language the result holds one sentence per
\* terminator of that language, the terminator at its end, then the
\* unterminated remainder, without the whitespace-only spans; in ja-JP the
\* text of two sentences each closed by the ideographic full stop splits
\* into exactly these two.
C21_SplitsAtTerminators ==
    (pcall.op = "splitIntoSentences" /\ supportsSentenceTranslation(pcall.languageCode))
        => /\ pcall.result
                 = ScanSentences(pcall.text,
                                 IF pcall.languageCode = "ja-JP"
                                 THEN {"IDEO_STOP", "?"} ELSE {".", "?"},
                                 <<>>)
           /\ (pcall.languageCode = "ja-JP" /\ pcall.text = JapaneseExample)
                  => pcall.result = << <<"a", "IDEO_STOP">>, <<"b", "IDEO_STOP">> >>

\* The ja-JP example has been split in two.
C21_Witness ==
    /\ pcall.op = "splitIntoSentences"
    /\ pcall.languageCode = "ja-JP"
    /\ pcall.text = JapaneseExample
    /\ Len(pcall.result) = 2

\* C27: the result holds one record per sentence of the new text, in split
\* order, record i with the text of sentence i; previous records past the
\* last new sentence are dropped and have no influence on the result.
C27_OneRecordPerSentence ==
    FirstCall =>
        /\ TextsOf(pcall.result) = CallSentences
        /\ Len(pcall.existingSegments) > Len(CallSentences)
               => pcall.result
                     = updateTranslationSegments(pcall.newText, pcall.languageCode,
                           SubSeq(pcall.existingSegments, 1, Len(CallSentences)))

\* Two previous records, one new sentence: the record of "b." is gone.
C27_Witness ==
    /\ FirstCall
    /\ Len(pcall.existingSegments) = 2
    /\ pcall.existingSegments[2] = SegmentInState(UnitB, "translated")
    /\ pcall.newText = UnitA
    /\ Len(pcall.result) = 1

(***************************************************************************)
(* convertToSafeFilename (fileNameUtils).  A file name is a sequence of    *)
(* one-character strings; the kanji of the test file names are written     *)
(* "KANJI_SHI", "KANJI_RYO", "KANJI_SHO" and "KANJI_RUI".                  *)
(***************************************************************************)
AsciiLetters ==
    {"a", "b", "c", "d", "e", "f", "g", "h", "i", "j", "k", "l", "m", "n", "o", "p", "q", "r", "s", "t", "u", "v", "w", "x", "y", "z",
     "A", "B", "C", "D", "E", "F", "G", "H", "I", "J", "K", "L", "M", "N", "O", "P", "Q", "R", "S", "T", "U", "V", "W", "X", "Y", "Z"}

AsciiDigits == {"0", "1", "2", "3", "4", "5", "6", "7", "8", "9"}

\* The characters the pattern [^a-zA-Z0-9\s\-()[\]] leaves alone.
AllowedFilenameChars ==
    AsciiLetters \cup AsciiDigits \cup Whitespace \cup {"-", "(", ")", "[", "]"}

\* String.prototype.lastIndexOf, counted from 1; 0 when absent.
LastIndexOf(s, ch) ==
    LET hits == {i \in 1..Len(s) : s[i] = ch}
    IN  IF hits = {} THEN 0 ELSE CHOOSE i \in hits : \A j \in hits : j <= i

\* The first 8 hex digits of the MD5 digest of the UTF-8 file name, for the
\* file names of the model.
Md5Table ==
    {
    <<<<>>, <<"d", "4", "1", "d", "8", "c", "d", "9">>>>,
    <<<<"a">>, <<"0", "c", "c", "1", "7", "5", "b", "9">>>>,
    <<<<" ">>, <<"7", "2", "1", "5", "e", "e", "9", "c">>>>,
    <<<<".">>, <<"5", "0", "5", "8", "f", "1", "a", "f">>>>,
    <<<<"_">>, <<"b", "1", "4", "a", "7", "b", "8", "0">>>>,
    <<<<"@">>, <<"5", "1", "8", "e", "d", "2", "9", "5">>>>,
    <<<<"KANJI_SHI">>, <<"0", "7", "d", "c", "7", "4", "f", "9">>>>,
    <<<<"a", "a">>, <<"4", "1", "2", "4", "b", "c", "0", "a">>>>,
    <<<<"a", " ">>, <<"9", "9", "0", "2", "0", "c", "b", "2">>>>,
    <<<<"a", ".">>, <<"9", "f", "b", "c", "c", "c", "f", "4">>>>,
    <<<<"a", "_">>, <<"5", "7", "6", "e", "0", "9", "d", "1">>>>,
    <<<<"a", "@">>, <<"8", "9", "9", "4", "f", "2", "1", "f">>>>,
    <<<<"a", "KANJI_SHI">>, <<"7", "9", "f", "0", "d", "4", "2", "2">>>>,
    <<<<" ", "a">>, <<"9", "5", "2", "9", "8", "8", "d", "a">>>>,
    <<<<" ", " ">>, <<"2", "3", "b", "5", "8", "d", "e", "f">>>>,
    <<<<" ", ".">>, <<"b", "b", "3", "8", "b", "5", "c", "7">>>>,
    <<<<" ", "_">>, <<"6", "8", "3", "0", "1", "b", "5", "f">>>>,
    <<<<" ", "@">>, <<"b", "e", "f", "0", "5", "d", "2", "9">>>>,
    <<<<" ", "KANJI_SHI">>, <<"c", "a", "8", "e", "a", "b", "d", "3">>>>,
    <<<<".", "a">>, <<"5", "1", "b", "e", "3", "5", "1", "2">>>>,
    <<<<".", " ">>, <<"8", "9", "b", "e", "1", "1", "2", "0">>>>,
    <<<<".", ".">>, <<"5", "8", "b", "9", "e", "7", "0", "b">>>>,
    <<<<".", "_">>, <<"f", "3", "7", "a", "f", "e", "8", "3">>>>,
    <<<<".", "@">>, <<"f", "9", "b", "c", "9", "7", "5", "b">>>>,
    <<<<".", "KANJI_SHI">>, <<"4", "f", "0", "f", "e", "4", "5", "0">>>>,
    <<<<"_", "a">>, <<"5", "c", "8", "5", "5", "e", "0", "9">>>>,
    <<<<"_", " ">>, <<"9", "7", "e", "c", "f", "d", "b", "9">>>>,
    <<<<"_", ".">>, <<"7", "b", "3", "2", "0", "1", "8", "0">>>>,
    <<<<"_", "_">>, <<"1", "8", "f", "0", "5", "a", "e", "d">>>>,
    <<<<"_", "@">>, <<"f", "3", "5", "5", "d", "7", "1", "9">>>>,
    <<<<"_", "KANJI_SHI">>, <<"1", "0", "d", "d", "d", "d", "a", "d">>>>,
    <<<<"@", "a">>, <<"2", "7", "4", "d", "c", "b", "d", "5">>>>,
    <<<<"@", " ">>, <<"d", "c", "c", "a", "f", "a", "6", "4">>>>,
    <<<<"@", ".">>, <<"d", "e", "a", "d", "d", "b", "d", "e">>>>,
    <<<<"@", "_">>, <<"9", "7", "a", "7", "b", "f", "8", "1">>>>,
    <<<<"@", "@">>, <<"2", "0", "5", "8", "c", "6", "5", "b">>>>,
    <<<<"@", "KANJI_SHI">>, <<"b", "4", "6", "f", "e", "3", "e", "b">>>>,
    <<<<"KANJI_SHI", "a">>, <<"e", "f", "e", "9", "7", "7", "4", "d">>>>,
    <<<<"KANJI_SHI", " ">>, <<"c", "4", "1", "d", "e", "e", "6", "c">>>>,
    <<<<"KANJI_SHI", ".">>, <<"b", "8", "9", "e", "6", "0", "a", "b">>>>,
    <<<<"KANJI_SHI", "_">>, <<"c", "b", "6", "d", "7", "3", "0", "8">>>>,
    <<<<"KANJI_SHI", "@">>, <<"4", "9", "2", "6", "5", "7", "c", "9">>>>,
    <<<<"KANJI_SHI", "KANJI_SHI">>, <<"d", "4", "6", "6", "5", "b", "3", "e">>>>,
    <<<<"a", "a", "a">>, <<"4", "7", "b", "c", "e", "5", "c", "7">>>>,
    <<<<"a", "a", " ">>, <<"e", "1", "1", "0", "3", "5", "d", "6">>>>,
    <<<<"a", "a", ".">>, <<"f", "3", "3", "0", "8", "e", "8", "2">>>>,
    <<<<"a", "a", "_">>, <<"8", "3", "1", "7", "2", "9", "a", "4">>>>,
    <<<<"a", "a", "@">>, <<"6", "9", "6", "8", "6", "5", "a", "2">>>>,
    <<<<"a", "a", "KANJI_SHI">>, <<"4", "e", "8", "c", "7", "c", "0", "5">>>>,
    <<<<"a", " ", "a">>, <<"1", "b", "b", "d", "a", "9", "b", "9">>>>,
    <<<<"a", " ", " ">>, <<"d", "4", "a", "c", "0", "3", "3", "4">>>>,
    <<<<"a", " ", ".">>, <<"3", "5", "4", "c", "5", "b", "4", "d">>>>,
    <<<<"a", " ", "_">>, <<"8", "f", "a", "4", "1", "b", "d", "a">>>>,
    <<<<"a", " ", "@">>, <<"1", "c", "a", "5", "b", "3", "8", "6">>>>,
    <<<<"a", " ", "KANJI_SHI">>, <<"0", "6", "5", "8", "3", "0", "1", "e">>>>,
    <<<<"a", ".", "a">>, <<"4", "0", "6", "4", "1", "c", "f", "f">>>>,
    <<<<"a", ".", " ">>, <<"2", "5", "0", "a", "9", "9", "7", "2">>>>,
    <<<<"a", ".", ".">>, <<"1", "9", "2", "7", "b", "7", "c", "9">>>>,
    <<<<"a", ".", "_">>, <<"5", "e", "9", "e", "f", "2", "3", "2">>>>,
    <<<<"a", ".", "@">>, <<"2", "b", "2", "6", "7", "1", "f", "8">>>>,
    <<<<"a", ".", "KANJI_SHI">>, <<"e", "7", "4", "b", "d", "f", "9", "3">>>>,
    <<<<"a", "_", "a">>, <<"6", "d", "9", "e", "e", "d", "c", "3">>>>,
    <<<<"a", "_", " ">>, <<"9", "7", "9", "2", "b", "8", "4", "2">>>>,
    <<<<"a", "_", ".">>, <<"2", "7", "c", "8", "9", "1", "b", "3">>>>,
    <<<<"a", "_", "_">>, <<"9", "0", "b", "b", "e", "4", "4", "0">>>>,
    <<<<"a", "_", "@">>, <<"c", "e", "e", "8", "3", "b", "2", "4">>>>,
    <<<<"a", "_", "KANJI_SHI">>, <<"a", "c", "c", "4", "1", "1", "4", "6">>>>,
    <<<<"a", "@", "a">>, <<"4", "b", "9", "4", "1", "1", "a", "9">>>>,
    <<<<"a", "@", " ">>, <<"a", "d", "5", "4", "6", "4", "b", "1">>>>,
    <<<<"a", "@", ".">>, <<"5", "1", "5", "f", "6", "8", "e", "f">>>>,
    <<<<"a", "@", "_">>, <<"6", "4", "e", "c", "6", "d", "1", "3">>>>,
    <<<<"a", "@", "@">>, <<"5", "1", "8", "7", "d", "9", "5", "3">>>>,
    <<<<"a", "@", "KANJI_SHI">>, <<"3", "2", "3", "e", "5", "a", "4", "9">>>>,
    <<<<"a", "KANJI_SHI", "a">>, <<"f", "0", "5", "1", "d", "e", "5", "7">>>>,
    <<<<"a", "KANJI_SHI", " ">>, <<"a", "e", "4", "a", "0", "9", "1", "3">>>>,
    <<<<"a", "KANJI_SHI", ".">>, <<"4", "6", "7", "1", "2", "3", "a", "e">>>>,
    <<<<"a", "KANJI_SHI", "_">>, <<"8", "0", "b", "b", "f", "9", "6", "4">>>>,
    <<<<"a", "KANJI_SHI", "@">>, <<"2", "c", "e", "7", "a", "d", "d", "e">>>>,
    <<<<"a", "KANJI_SHI", "KANJI_SHI">>, <<"7", "e", "e", "c", "b", "d", "b", "0">>>>,
    <<<<" ", "a", "a">>, <<"e", "b", "6", "8", "d", "7", "c", "e">>>>,
    <<<<" ", "a", " ">>, <<"e", "4", "9", "7", "3", "6", "f", "0">>>>,
    <<<<" ", "a", ".">>, <<"b", "b", "9", "9", "d", "5", "a", "6">>>>,
    <<<<" ", "a", "_">>, <<"8", "d", "0", "c", "c", "9", "f", "5">>>>,
    <<<<" ", "a", "@">>, <<"6", "8", "d", "e", "a", "d", "2", "3">>>>,
    <<<<" ", "a", "KANJI_SHI">>, <<"a", "d", "8", "8", "8", "e", "f", "b">>>>,
    <<<<" ", " ", "a">>, <<"7", "8", "b", "7", "9", "0", "4", "8">>>>,
    <<<<" ", " ", " ">>, <<"6", "2", "8", "6", "3", "1", "f", "0">>>>,
    <<<<" ", " ", ".">>, <<"e", "a", "6", "0", "c", "1", "1", "8">>>>,
    <<<<" ", " ", "_">>, <<"b", "d", "e", "c", "9", "f", "0", "8">>>>,
    <<<<" ", " ", "@">>, <<"1", "7", "4", "0", "5", "9", "b", "2">>>>,
    <<<<" ", " ", "KANJI_SHI">>, <<"f", "c", "8", "b", "a", "7", "b", "0">>>>,
    <<<<" ", ".", "a">>, <<"f", "9", "8", "5", "d", "2", "e", "8">>>>,
    <<<<" ", ".", " ">>, <<"7", "4", "2", "4", "a", "9", "6", "e">>>>,
    <<<<" ", ".", ".">>, <<"2", "8", "9", "d", "3", "7", "e", "0">>>>,
    <<<<" ", ".", "_">>, <<"d", "a", "d", "6", "0", "9", "f", "2">>>>,
    <<<<" ", ".", "@">>, <<"c", "4", "d", "8", "c", "6", "8", "f">>>>,
    <<<<" ", ".", "KANJI_SHI">>, <<"4", "9", "1", "d", "5", "7", "8", "9">>>>,
    <<<<" ", "_", "a">>, <<"2", "c", "a", "1", "a", "4", "6", "4">>>>,
    <<<<" ", "_", " ">>, <<"5", "c", "9", "7", "b", "2", "3", "a">>>>,
    <<<<" ", "_", ".">>, <<"3", "8", "1", "d", "a", "4", "3", "f">>>>,
    <<<<" ", "_", "_">>, <<"9", "7", "1", "a", "0", "b", "0", "a">>>>,
    <<<<" ", "_", "@">>, <<"a", "a", "8", "a", "6", "9", "1", "a">>>>,
    <<<<" ", "_", "KANJI_SHI">>, <<"f", "b", "d", "3", "8", "f", "c", "b">>>>,
    <<<<" ", "@", "a">>, <<"a", "b", "1", "8", "6", "c", "f", "f">>>>,
    <<<<" ", "@", " ">>, <<"3", "6", "2", "d", "6", "b", "e", "e">>>>,
    <<<<" ", "@", ".">>, <<"1", "6", "9", "9", "f", "c", "a", "8">>>>,
    <<<<" ", "@", "_">>, <<"3", "f", "a", "4", "8", "8", "7", "2">>>>,
    <<<<" ", "@", "@">>, <<"3", "1", "c", "9", "9", "7", "7", "3">>>>,
    <<<<" ", "@", "KANJI_SHI">>, <<"7", "e", "1", "d", "b", "5", "5", "c">>>>,
    <<<<" ", "KANJI_SHI", "a">>, <<"3", "8", "e", "e", "1", "3", "9", "5">>>>,
    <<<<" ", "KANJI_SHI", " ">>, <<"1", "b", "1", "c", "9", "e", "e", "0">>>>,
    <<<<" ", "KANJI_SHI", ".">>, <<"b", "b", "c", "b", "a", "4", "2", "d">>>>,
    <<<<" ", "KANJI_SHI", "_">>, <<"1", "e", "f", "4", "c", "d", "b", "d">>>>,
    <<<<" ", "KANJI_SHI", "@">>, <<"c", "4", "c", "b", "3", "7", "1", "7">>>>,
    <<<<" ", "KANJI_SHI", "KANJI_SHI">>, <<"1", "3", "f", "8", "b", "8", "5", "a">>>>,
    <<<<".", "a", "a">>, <<"8", "d", "8", "f", "d", "0", "d", "b">>>>,
    <<<<".", "a", " ">>, <<"6", "d", "c", "b", "c", "1", "a", "e">>>>,
    <<<<".", "a", ".">>, <<"9", "f", "7", "5", "8", "d", "6", "c">>>>,
    <<<<".", "a", "_">>, <<"5", "5", "6", "8", "b", "0", "2", "6">>>>,
    <<<<".", "a", "@">>, <<"f", "2", "f", "b", "b", "e", "7", "3">>>>,
    <<<<".", "a", "KANJI_SHI">>, <<"d", "f", "e", "3", "5", "4", "3", "a">>>>,
    <<<<".", " ", "a">>, <<"e", "5", "d", "e", "0", "a", "3", "3">>>>,
    <<<<".", " ", " ">>, <<"c", "8", "7", "a", "5", "6", "5", "9">>>>,
    <<<<".", " ", ".">>, <<"7", "2", "f", "d", "8", "e", "8", "b">>>>,
    <<<<".", " ", "_">>, <<"1", "3", "0", "4", "1", "4", "d", "8">>>>,
    <<<<".", " ", "@">>, <<"c", "a", "9", "e", "8", "d", "6", "0">>>>,
    <<<<".", " ", "KANJI_SHI">>, <<"0", "8", "b", "c", "f", "0", "9", "9">>>>,
    <<<<".", ".", "a">>, <<"9", "c", "e", "8", "8", "3", "7", "f">>>>,
    <<<<".", ".", " ">>, <<"3", "5", "2", "e", "2", "6", "9", "0">>>>,
    <<<<".", ".", ".">>, <<"2", "f", "4", "3", "b", "4", "2", "f">>>>,
    <<<<".", ".", "_">>, <<"b", "a", "4", "c", "1", "b", "2", "0">>>>,
    <<<<".", ".", "@">>, <<"0", "7", "0", "a", "2", "b", "c", "1">>>>,
    <<<<".", ".", "KANJI_SHI">>, <<"1", "e", "1", "a", "d", "4", "4", "0">>>>,
    <<<<".", "_", "a">>, <<"5", "1", "a", "4", "c", "d", "3", "2">>>>,
    <<<<".", "_", " ">>, <<"3", "4", "d", "f", "f", "e", "3", "b">>>>,
    <<<<".", "_", ".">>, <<"e", "6", "9", "3", "8", "9", "5", "f">>>>,
    <<<<".", "_", "_">>, <<"7", "f", "1", "f", "b", "3", "1", "0">>>>,
    <<<<".", "_", "@">>, <<"d", "e", "6", "f", "2", "1", "a", "f">>>>,
    <<<<".", "_", "KANJI_SHI">>, <<"a", "8", "9", "4", "d", "8", "1", "0">>>>,
    <<<<".", "@", "a">>, <<"5", "3", "e", "b", "5", "a", "5", "4">>>>,
    <<<<".", "@", " ">>, <<"9", "8", "5", "4", "a", "4", "f", "6">>>>,
    <<<<".", "@", ".">>, <<"1", "4", "f", "b", "3", "1", "3", "e">>>>,
    <<<<".", "@", "_">>, <<"6", "5", "3", "f", "d", "0", "7", "f">>>>,
    <<<<".", "@", "@">>, <<"5", "9", "3", "6", "b", "4", "6", "d">>>>,
    <<<<".", "@", "KANJI_SHI">>, <<"7", "a", "6", "2", "c", "f", "f", "c">>>>,
    <<<<".", "KANJI_SHI", "a">>, <<"6", "0", "7", "2", "2", "e", "3", "d">>>>,
    <<<<".", "KANJI_SHI", " ">>, <<"b", "5", "0", "d", "6", "a", "c", "8">>>>,
    <<<<".", "KANJI_SHI", ".">>, <<"b", "4", "e", "1", "b", "f", "8", "7">>>>,
    <<<<".", "KANJI_SHI", "_">>, <<"c", "7", "c", "d", "b", "f", "e", "e">>>>,
    <<<<".", "KANJI_SHI", "@">>, <<"b", "3", "1", "2", "a", "5", "0", "d">>>>,
    <<<<".", "KANJI_SHI", "KANJI_SHI">>, <<"7", "c", "8", "d", "1", "6", "b", "6">>>>,
    <<<<"_", "a", "a">>, <<"9", "0", "d", "4", "9", "0", "2", "d">>>>,
    <<<<"_", "a", " ">>, <<"1", "b", "f", "3", "d", "d", "7", "b">>>>,
    <<<<"_", "a", ".">>, <<"e", "b", "2", "d", "3", "0", "a", "3">>>>,
    <<<<"_", "a", "_">>, <<"7", "6", "7", "8", "5", "1", "0", "b">>>>,
    <<<<"_", "a", "@">>, <<"3", "9", "4", "4", "a", "0", "4", "5">>>>,
    <<<<"_", "a", "KANJI_SHI">>, <<"2", "6", "e", "0", "4", "1", "8", "5">>>>,
    <<<<"_", " ", "a">>, <<"c", "b", "3", "9", "0", "9", "c", "7">>>>,
    <<<<"_", " ", " ">>, <<"3", "3", "a", "d", "f", "5", "3", "f">>>>,
    <<<<"_", " ", ".">>, <<"1", "8", "6", "e", "f", "f", "b", "1">>>>,
    <<<<"_", " ", "_">>, <<"d", "5", "2", "2", "d", "2", "f", "8">>>>,
    <<<<"_", " ", "@">>, <<"4", "c", "0", "4", "7", "4", "e", "1">>>>,
    <<<<"_", " ", "KANJI_SHI">>, <<"7", "0", "3", "2", "0", "2", "3", "6">>>>,
    <<<<"_", ".", "a">>, <<"f", "a", "c", "3", "f", "2", "4", "e">>>>,
    <<<<"_", ".", " ">>, <<"3", "e", "c", "a", "9", "d", "0", "3">>>>,
    <<<<"_", ".", ".">>, <<"e", "a", "4", "e", "a", "0", "2", "e">>>>,
    <<<<"_", ".", "_">>, <<"7", "f", "7", "e", "f", "a", "9", "d">>>>,
    <<<<"_", ".", "@">>, <<"5", "6", "d", "0", "c", "4", "8", "0">>>>,
    <<<<"_", ".", "KANJI_SHI">>, <<"1", "c", "6", "a", "0", "3", "b", "9">>>>,
    <<<<"_", "_", "a">>, <<"e", "1", "3", "a", "9", "6", "a", "0">>>>,
    <<<<"_", "_", " ">>, <<"4", "5", "1", "8", "5", "f", "c", "3">>>>,
    <<<<"_", "_", ".">>, <<"2", "7", "0", "8", "d", "b", "8", "5">>>>,
    <<<<"_", "_", "_">>, <<"9", "4", "8", "a", "1", "3", "f", "1">>>>,
    <<<<"_", "_", "@">>, <<"c", "d", "6", "1", "5", "8", "e", "d">>>>,
    <<<<"_", "_", "KANJI_SHI">>, <<"0", "9", "2", "6", "9", "3", "7", "0">>>>,
    <<<<"_", "@", "a">>, <<"3", "0", "d", "3", "e", "4", "5", "6">>>>,
    <<<<"_", "@", " ">>, <<"5", "8", "5", "6", "d", "2", "3", "f">>>>,
    <<<<"_", "@", ".">>, <<"4", "2", "0", "3", "1", "a", "e", "8">>>>,
    <<<<"_", "@", "_">>, <<"e", "a", "2", "a", "4", "3", "a", "7">>>>,
    <<<<"_", "@", "@">>, <<"f", "e", "e", "b", "c", "8", "b", "7">>>>,
    <<<<"_", "@", "KANJI_SHI">>, <<"7", "8", "9", "b", "c", "4", "0", "a">>>>,
    <<<<"_", "KANJI_SHI", "a">>, <<"6", "b", "8", "9", "f", "0", "b", "2">>>>,
    <<<<"_", "KANJI_SHI", " ">>, <<"4", "d", "4", "c", "a", "1", "8", "2">>>>,
    <<<<"_", "KANJI_SHI", ".">>, <<"7", "c", "f", "b", "3", "b", "0", "f">>>>,
    <<<<"_", "KANJI_SHI", "_">>, <<"d", "e", "f", "9", "8", "f", "8", "2">>>>,
    <<<<"_", "KANJI_SHI", "@">>, <<"7", "7", "8", "5", "4", "1", "d", "9">>>>,
    <<<<"_", "KANJI_SHI", "KANJI_SHI">>, <<"0", "6", "6", "b", "f", "3", "1", "3">>>>,
    <<<<"@", "a", "a">>, <<"7", "d", "2", "9", "2", "b", "b", "c">>>>,
    <<<<"@", "a", " ">>, <<"e", "4", "0", "d", "b", "8", "8", "b">>>>,
    <<<<"@", "a", ".">>, <<"2", "b", "4", "0", "3", "7", "8", "c">>>>,
    <<<<"@", "a", "_">>, <<"6", "e", "e", "7", "8", "a", "7", "0">>>>,
    <<<<"@", "a", "@">>, <<"1", "3", "6", "4", "2", "e", "b", "8">>>>,
    <<<<"@", "a", "KANJI_SHI">>, <<"b", "c", "7", "0", "0", "5", "4", "b">>>>,
    <<<<"@", " ", "a">>, <<"e", "2", "5", "e", "b", "e", "f", "c">>>>,
    <<<<"@", " ", " ">>, <<"3", "e", "b", "a", "8", "7", "7", "e">>>>,
    <<<<"@", " ", ".">>, <<"7", "4", "1", "c", "f", "0", "f", "9">>>>,
    <<<<"@", " ", "_">>, <<"4", "9", "f", "2", "3", "f", "8", "8">>>>,
    <<<<"@", " ", "@">>, <<"f", "5", "4", "9", "a", "8", "1", "5">>>>,
    <<<<"@", " ", "KANJI_SHI">>, <<"c", "a", "0", "a", "f", "5", "7", "2">>>>,
    <<<<"@", ".", "a">>, <<"8", "e", "d", "a", "f", "8", "d", "5">>>>,
    <<<<"@", ".", " ">>, <<"c", "d", "f", "c", "e", "6", "5", "5">>>>,
    <<<<"@", ".", ".">>, <<"d", "1", "6", "1", "9", "1", "a", "d">>>>,
    <<<<"@", ".", "_">>, <<"e", "9", "1", "5", "a", "7", "0", "e">>>>,
    <<<<"@", ".", "@">>, <<"d", "9", "2", "1", "9", "8", "c", "2">>>>,
    <<<<"@", ".", "KANJI_SHI">>, <<"a", "d", "3", "d", "7", "8", "4", "2">>>>,
    <<<<"@", "_", "a">>, <<"3", "8", "0", "6", "f", "c", "9", "6">>>>,
    <<<<"@", "_", " ">>, <<"d", "8", "3", "e", "f", "7", "7", "3">>>>,
    <<<<"@", "_", ".">>, <<"f", "a", "7", "7", "8", "d", "b", "e">>>>,
    <<<<"@", "_", "_">>, <<"b", "4", "a", "7", "4", "3", "1", "2">>>>,
    <<<<"@", "_", "@">>, <<"2", "e", "a", "4", "8", "8", "4", "f">>>>,
    <<<<"@", "_", "KANJI_SHI">>, <<"6", "f", "c", "f", "a", "b", "a", "1">>>>,
    <<<<"@", "@", "a">>, <<"9", "4", "5", "f", "5", "3", "f", "a">>>>,
    <<<<"@", "@", " ">>, <<"d", "9", "f", "d", "8", "7", "c", "d">>>>,
    <<<<"@", "@", ".">>, <<"0", "a", "a", "7", "e", "e", "5", "a">>>>,
    <<<<"@", "@", "_">>, <<"0", "6", "9", "f", "a", "5", "c", "6">>>>,
    <<<<"@", "@", "@">>, <<"2", "e", "e", "1", "7", "5", "9", "9">>>>,
    <<<<"@", "@", "KANJI_SHI">>, <<"d", "4", "d", "0", "7", "6", "4", "7">>>>,
    <<<<"@", "KANJI_SHI", "a">>, <<"2", "a", "c", "5", "e", "0", "8", "8">>>>,
    <<<<"@", "KANJI_SHI", " ">>, <<"b", "d", "3", "e", "c", "e", "c", "e">>>>,
    <<<<"@", "KANJI_SHI", ".">>, <<"b", "5", "1", "e", "a", "9", "6", "5">>>>,
    <<<<"@", "KANJI_SHI", "_">>, <<"3", "e", "5", "0", "2", "0", "6", "4">>>>,
    <<<<"@", "KANJI_SHI", "@">>, <<"f", "7", "1", "b", "0", "3", "9", "5">>>>,
    <<<<"@", "KANJI_SHI", "KANJI_SHI">>, <<"3", "7", "6", "9", "7", "e", "7", "1">>>>,
    <<<<"KANJI_SHI", "a", "a">>, <<"b", "c", "b", "0", "3", "e", "a", "9">>>>,
    <<<<"KANJI_SHI", "a", " ">>, <<"2", "1", "7", "d", "a", "6", "c", "d">>>>,
    <<<<"KANJI_SHI", "a", ".">>, <<"c", "0", "9", "7", "2", "f", "3", "e">>>>,
    <<<<"KANJI_SHI", "a", "_">>, <<"d", "8", "6", "e", "9", "6", "6", "c">>>>,
    <<<<"KANJI_SHI", "a", "@">>, <<"7", "1", "2", "e", "8", "8", "d", "a">>>>,
    <<<<"KANJI_SHI", "a", "KANJI_SHI">>, <<"0", "d", "6", "8", "f", "e", "9", "9">>>>,
    <<<<"KANJI_SHI", " ", "a">>, <<"7", "e", "e", "0", "9", "0", "4", "a">>>>,
    <<<<"KANJI_SHI", " ", " ">>, <<"7", "1", "4", "5", "4", "0", "2", "4">>>>,
    <<<<"KANJI_SHI", " ", ".">>, <<"7", "3", "a", "5", "7", "a", "d", "c">>>>,
    <<<<"KANJI_SHI", " ", "_">>, <<"e", "1", "a", "2", "5", "0", "e", "0">>>>,
    <<<<"KANJI_SHI", " ", "@">>, <<"8", "4", "e", "b", "5", "2", "1", "8">>>>,
    <<<<"KANJI_SHI", " ", "KANJI_SHI">>, <<"9", "c", "6", "5", "e", "6", "c", "e">>>>,
    <<<<"KANJI_SHI", ".", "a">>, <<"3", "1", "4", "2", "3", "2", "b", "3">>>>,
    <<<<"KANJI_SHI", ".", " ">>, <<"b", "b", "5", "c", "3", "3", "0", "1">>>>,
    <<<<"KANJI_SHI", ".", ".">>, <<"b", "c", "1", "0", "9", "1", "b", "5">>>>,
    <<<<"KANJI_SHI", ".", "_">>, <<"3", "9", "9", "e", "0", "b", "a", "1">>>>,
    <<<<"KANJI_SHI", ".", "@">>, <<"6", "5", "9", "e", "c", "3", "a", "e">>>>,
    <<<<"KANJI_SHI", ".", "KANJI_SHI">>, <<"d", "a", "d", "4", "9", "0", "0", "3">>>>,
    <<<<"KANJI_SHI", "_", "a">>, <<"8", "8", "4", "f", "b", "e", "1", "4">>>>,
    <<<<"KANJI_SHI", "_", " ">>, <<"c", "8", "7", "b", "3", "9", "9", "c">>>>,
    <<<<"KANJI_SHI", "_", ".">>, <<"e", "9", "2", "8", "b", "c", "d", "0">>>>,
    <<<<"KANJI_SHI", "_", "_">>, <<"f", "6", "7", "2", "6", "8", "a", "2">>>>,
    <<<<"KANJI_SHI", "_", "@">>, <<"6", "0", "4", "5", "8", "e", "e", "d">>>>,
    <<<<"KANJI_SHI", "_", "KANJI_SHI">>, <<"d", "7", "c", "6", "9", "c", "0", "e">>>>,
    <<<<"KANJI_SHI", "@", "a">>, <<"9", "d", "2", "7", "c", "f", "e", "4">>>>,
    <<<<"KANJI_SHI", "@", " ">>, <<"3", "b", "4", "2", "8", "a", "f", "2">>>>,
    <<<<"KANJI_SHI", "@", ".">>, <<"8", "1", "3", "b", "0", "7", "9", "b">>>>,
    <<<<"KANJI_SHI", "@", "_">>, <<"8", "c", "8", "7", "0", "8", "0", "a">>>>,
    <<<<"KANJI_SHI", "@", "@">>, <<"a", "8", "5", "b", "5", "3", "5", "a">>>>,
    <<<<"KANJI_SHI", "@", "KANJI_SHI">>, <<"4", "a", "7", "c", "0", "d", "8", "0">>>>,
    <<<<"KANJI_SHI", "KANJI_SHI", "a">>, <<"7", "2", "d", "2", "a", "e", "5", "8">>>>,
    <<<<"KANJI_SHI", "KANJI_SHI", " ">>, <<"c", "b", "8", "6", "2", "4", "0", "d">>>>,
    <<<<"KANJI_SHI", "KANJI_SHI", ".">>, <<"b", "e", "0", "0", "0", "4", "2", "d">>>>,
    <<<<"KANJI_SHI", "KANJI_SHI", "_">>, <<"a", "c", "b", "6", "5", "b", "2", "d">>>>,
    <<<<"KANJI_SHI", "KANJI_SHI", "@">>, <<"e", "0", "4", "f", "c", "1", "8", "3">>>>,
    <<<<"KANJI_SHI", "KANJI_SHI", "KANJI_SHI">>, <<"2", "8", "d", "a", "d", "e", "b", "2">>>>,
    <<<<"d", "o", "c", "u", "m", "e", "n", "t", ".", "p", "d", "f">>, <<"4", "6", "7", "b", "8", "7", "e", "0">>>>,
    <<<<"KANJI_SHI", "KANJI_RYO", ".", "p", "d", "f">>, <<"4", "6", "a", "8", "9", "0", "b", "2">>>>,
    <<<<"KANJI_SHO", "KANJI_RUI", ".", "p", "d", "f">>, <<"5", "c", "4", "a", "a", "3", "4", "2">>>>,
    <<<<"r", "e", "p", "o", "r", "t", ".", "f", "i", "n", "a", "l", ".", "p", "d", "f">>, <<"8", "d", "1", "0", "1", "3", "8", "2">>>>,
    <<<<"a", "_", "b", ".", "p", "d", "f">>, <<"e", "2", "d", "2", "3", "6", "5", "5">>>>,
    <<<<"a", "-", "1", " ", "(", "b", ")", "[", "c", "]", ".", "p", "d", "f">>, <<"a", "d", "b", "7", "2", "6", "e", "7">>>>,
    <<<<"d", "o", "c", "u", "m", "e", "n", "t">>, <<"f", "d", "c", "3", "b", "d", "e", "f">>>>,
    <<<<"KANJI_SHI", "KANJI_RYO">>, <<"d", "4", "7", "e", "4", "1", "6", "e">>>>,
    <<<<"KANJI_SHO", "KANJI_RUI">>, <<"c", "f", "2", "e", "2", "e", "f", "f">>>>,
    <<<<"r", "e", "p", "o", "r", "t", ".", "f", "i", "n", "a", "l">>, <<"9", "7", "6", "9", "c", "0", "f", "3">>>>,
    <<<<"a", "_", "b">>, <<"d", "b", "f", "0", "8", "e", "0", "0">>>>,
    <<<<"a", "-", "1", " ", "(", "b", ")", "[", "c", "]">>, <<"8", "e", "2", "d", "1", "a", "1", "7">>>>
    }

Md5Hex8(filename) == (CHOOSE entry \in Md5Table : entry[1] = filename)[2]

\* Mutant: the suffix is appended to every name.
convertToSafeFilenameAlwaysHashed(filename) ==
    LET lastDotIndex == LastIndexOf(filename, ".")
        nameWithoutExt == IF lastDotIndex > 1
                          THEN SubSeq(filename, 1, lastDotIndex - 1) ELSE filename
        safeName == [i \in 1..Len(nameWithoutExt) |->
                        IF nameWithoutExt[i] \in AllowedFilenameChars
                        THEN nameWithoutExt[i] ELSE "_"]
    IN  safeName \o <<"_">> \o Md5Hex8(filename)

\* Mutant: the digest is taken of the name without its extension.
convertToSafeFilenameHashingName(filename) ==
    LET lastDotIndex == LastIndexOf(filename, ".")
        nameWithoutExt == IF lastDotIndex > 1
                          THEN SubSeq(filename, 1, lastDotIndex - 1) ELSE filename
        safeName == [i \in 1..Len(nameWithoutExt) |->
                        IF nameWithoutExt[i] \in AllowedFilenameChars
                        THEN nameWithoutExt[i] ELSE "_"]
    IN  IF safeName # nameWithoutExt
        THEN safeName \o <<"_">> \o Md5Hex8(nameWithoutExt)
        ELSE safeName

convertToSafeFilename(filename) ==
    LET lastDotIndex == LastIndexOf(filename, ".")
        nameWithoutExt == IF lastDotIndex > 1
                          THEN SubSeq(filename, 1, lastDotIndex - 1) ELSE filename
        safeName == [i \in 1..Len(nameWithoutExt) |->
                        IF nameWithoutExt[i] \in AllowedFilenameChars
                        THEN nameWithoutExt[i] ELSE "_"]
    IN  IF safeName # nameWithoutExt
        THEN safeName \o <<"_">> \o Md5Hex8(filename)
        ELSE safeName

(***************************************************************************)
(* The helper functions called on their own.                               *)
(***************************************************************************)
MaxNameLen == 2

SupportsLanguages == {NoLanguage, "en-US", "ja-JP", "fr-FR", "en-GB", "en", "ja"}

TranslationTypes == {"unidirectional", "bidirectional"}
DetectedLanguages == {NoLanguage, "en-US", "ja-JP", "fr-FR"}
PrimaryLanguages == {"en-US", "ja-JP", "auto"}
SecondaryLanguages == {"ja-JP", "en-US"}

FileNameAlphabet == {"a", " ", ".", "_", "@", "KANJI_SHI"}

FileNameExamples ==
    {<<"d", "o", "c", "u", "m", "e", "n", "t", ".", "p", "d", "f">>,
     <<"KANJI_SHI", "KANJI_RYO", ".", "p", "d", "f">>,
     <<"KANJI_SHO", "KANJI_RUI", ".", "p", "d", "f">>,
     <<"r", "e", "p", "o", "r", "t", ".", "f", "i", "n", "a", "l", ".", "p", "d", "f">>,
     <<"a", "_", "b", ".", "p", "d", "f">>,
     <<"a", "-", "1", " ", "(", "b", ")", "[", "c", "]", ".", "p", "d", "f">>}

FileNames ==
    UNION {[1..n -> FileNameAlphabet] : n \in 0..MaxNameLen} \cup FileNameExamples

\* A result of two sentences, with or without a language code of its own.
LanguageSegments ==
    [resultId : ResultIds, startTime : {1}, endTime : {2}, isPartial : {TRUE},
     transcripts : {<<UnitA, UnitB>>}, languageCode : {NoLanguage, "ja-JP", "fr-FR"}]

\* The timeline before the update: empty, or holding the entry of an earlier
\* update of the same result.
EarlierTimelines ==
    {<<>>} \cup
    {updateRealtimeSegments(<<>>, MakeSegment(rawSegment, "microphone", 1, primary)) :
        rawSegment \in LanguageSegments, primary \in PrimaryLanguages}

CallSupports(languageCode) ==
    /\ pcall.op = "none"
    /\ pcall' = [op |-> "supportsSentenceTranslation",
                 languageCode |-> languageCode,
                 result |-> supportsSentenceTranslation(languageCode)]
    /\ UNCHANGED <<realtimeSegments, latestRequestTimestamps, selectedTranslationModel,
                   primaryLanguage, currentSessionId, recording, intervalClosure,
                   ticks, now, committedBy, lastOp>>
    /\ UNCHANGED contextVars
    /\ UNCHANGED settingVars

CallGetTranslationTarget(type, detectedLanguageCode, primary, secondary) ==
    /\ pcall.op = "none"
    /\ pcall' = [op |-> "getTranslationTarget",
                 translationType |-> type,
                 detectedLanguageCode |-> detectedLanguageCode,
                 primaryLanguage |-> primary,
                 secondaryLanguage |-> secondary,
                 result |-> getTranslationTarget(type, detectedLanguageCode,
                                                 primary, secondary)]
    /\ UNCHANGED <<realtimeSegments, latestRequestTimestamps, selectedTranslationModel,
                   primaryLanguage, currentSessionId, recording, intervalClosure,
                   ticks, now, committedBy, lastOp>>
    /\ UNCHANGED contextVars
    /\ UNCHANGED settingVars

CallConvertToSafeFilename(filename) ==
    /\ pcall.op = "none"
    /\ pcall' = [op |-> "convertToSafeFilename",
                 filename |-> filename,
                 result |-> convertToSafeFilename(filename),
                 again |-> convertToSafeFilename(filename)]
    /\ UNCHANGED <<realtimeSegments, latestRequestTimestamps, selectedTranslationModel,
                   primaryLanguage, currentSessionId, recording, intervalClosure,
                   ticks, now, committedBy, lastOp>>
    /\ UNCHANGED contextVars
    /\ UNCHANGED settingVars

\* The body of a raw-transcript effect for one raw segment.
CallRawTranscriptEffect(rawSegment, source, primary, prev) ==
    /\ pcall.op = "none"
    /\ pcall' = [op |-> "rawTranscriptEffect",
                 rawSegment |-> rawSegment,
                 source |-> source,
                 primaryLanguage |-> primary,
                 prev |-> prev,
                 result |-> updateRealtimeSegments(prev,
                               MakeSegment(rawSegment, source, 1, primary))]
    /\ UNCHANGED <<realtimeSegments, latestRequestTimestamps, selectedTranslationModel,
                   primaryLanguage, currentSessionId, recording, intervalClosure,
                   ticks, now, committedBy, lastOp>>
    /\ UNCHANGED contextVars
    /\ UNCHANGED settingVars

HelpersNext ==
    \/ \E languageCode \in SupportsLanguages : CallSupports(languageCode)
    \/ \E type \in TranslationTypes, detectedLanguageCode \in DetectedLanguages,
          primary \in PrimaryLanguages, secondary \in SecondaryLanguages :
           CallGetTranslationTarget(type, detectedLanguageCode, primary,
                                    secondary)
    \/ \E filename \in FileNames : CallConvertToSafeFilename(filename)
    \/ \E rawSegment \in LanguageSegments, source \in Sources,
          primary \in PrimaryLanguages, prev \in EarlierTimelines :
           CallRawTranscriptEffect(rawSegment, source, primary, prev)

HelpersSpec == Init /\ [][HelpersNext]_vars

(***************************************************************************)
(* Properties of the helper functions.                                     *)
(***************************************************************************)
\* The primary subtag of a language tag: what stands before the first "-".
PrimarySubtag(code) ==
    CASE code \in {"en-US", "en-GB", "en"} -> "en"
      [] code \in {"ja-JP", "ja"} -> "ja"
      [] code = "fr-FR" -> "fr"
      [] OTHER -> code

\* C22: a code is supported when it is one of the configured tags "ja-JP"
\* and "en-US", or else when its primary subtag is that of a configured
\* tag; an absent code and a code matching neither way are not supported.
C22_SupportsWithSubtagFallback ==
    pcall.op = "supportsSentenceTranslation" =>
        (pcall.result <=>
            /\ pcall.languageCode # NoLanguage
            /\ \/ pcall.languageCode \in {"ja-JP", "en-US"}
               \/ PrimarySubtag(pcall.languageCode) \in {"ja", "en"})

\* C23: in bidirectional mode a detected language equal to the primary
\* language gives the secondary language, one equal to the secondary
\* language gives the primary language, and any other or no detected
\* language gives the secondary language; in unidirectional mode the target
\* is the secondary language.  With primary en-US and secondary ja-JP:
\* en-US gives ja-JP, ja-JP gives en-US, fr-FR gives ja-JP.
C23_TargetResolution ==
    pcall.op = "getTranslationTarget" =>
        /\ pcall.translationType = "unidirectional"
               => pcall.result = pcall.secondaryLanguage
        /\ pcall.translationType = "bidirectional"
               => pcall.result
                     = (IF pcall.detectedLanguageCode = pcall.primaryLanguage
                        THEN pcall.secondaryLanguage
                        ELSE IF pcall.detectedLanguageCode = pcall.secondaryLanguage
                             THEN pcall.primaryLanguage
                             ELSE pcall.secondaryLanguage)
        /\ (/\ pcall.translationType = "bidirectional"
            /\ pcall.primaryLanguage = "en-US"
            /\ pcall.secondaryLanguage = "ja-JP")
               => pcall.result
                     = (CASE pcall.detectedLanguageCode = "en-US" -> "ja-JP"
                          [] pcall.detectedLanguageCode = "ja-JP" -> "en-US"
                          [] OTHER -> "ja-JP")

\* Bidirectional, en-US and ja-JP configured, ja-JP detected: en-US.
C23_Witness ==
    /\ pcall.op = "getTranslationTarget"
    /\ pcall.translationType = "bidirectional"
    /\ pcall.primaryLanguage = "en-US"
    /\ pcall.secondaryLanguage = "ja-JP"
    /\ pcall.detectedLanguageCode = "ja-JP"
    /\ pcall.result = "en-US"

HexDigits == AsciiDigits \cup {"a", "b", "c", "d", "e", "f"}

\* The name without the extension after its last dot; a dot in first
\* position starts no extension.
NameWithoutExtension(filename) ==
    LET dots == {i \in 2..Len(filename) : filename[i] = "."}
    IN  IF dots = {} THEN filename
        ELSE SubSeq(filename, 1, (CHOOSE i \in dots : \A j \in dots : j <= i) - 1)

Sanitized(name) ==
    [i \in 1..Len(name) |-> IF name[i] \in AllowedFilenameChars THEN name[i] ELSE "_"]

\* The result is the sanitized name followed by "_" and 8 hex digits.
HasHashSuffix(result, sanitized) ==
    /\ Len(result) = Len(sanitized) + 9
    /\ SubSeq(result, 1, Len(sanitized)) = sanitized
    /\ result[Len(sanitized) + 1] = "_"
    /\ \A i \in Len(sanitized) + 2..Len(result) : result[i] \in HexDigits

\* C24: the extension after the last dot is removed unless that dot is the
\* first character, every character of the remaining name other than ASCII
\* letters, digits, whitespace, hyphen, parentheses and square brackets
\* becomes "_", and "_" plus 8 hex digits is appended exactly when at least
\* one character of the name was not an allowed one.
C24_SafeFilename ==
    pcall.op = "convertToSafeFilename" =>
        LET name == NameWithoutExtension(pcall.filename)
        IN  IF \E i \in 1..Len(name) : name[i] \notin AllowedFilenameChars
            THEN HasHashSuffix(pcall.result, Sanitized(name))
            ELSE pcall.result = name

\* C24 as the code has it: an underscore is replaced by itself, so the
\* suffix is appended exactly when the name holds a character that is
\* neither allowed nor an underscore.
C24_SafeFilenameUnlessUnchanged ==
    pcall.op = "convertToSafeFilename" =>
        LET name == NameWithoutExtension(pcall.filename)
        IN  IF \E i \in 1..Len(name) : name[i] \notin AllowedFilenameChars \cup {"_"}
            THEN HasHashSuffix(pcall.result, Sanitized(name))
            ELSE pcall.result = name

\* "report.final.pdf" has become "report_final_8d101382".
C24_Witness ==
    /\ pcall.op = "convertToSafeFilename"
    /\ pcall.filename = <<"r", "e", "p", "o", "r", "t", ".", "f", "i", "n", "a", "l",
                          ".", "p", "d", "f">>
    /\ pcall.result = <<"r", "e", "p", "o", "r", "t", "_", "f", "i", "n", "a", "l",
                        "_", "8", "d", "1", "0", "1", "3", "8", "2">>

\* C25: the same file name gives the same result, a suffix is the digest
\* of the whole file name, extension included, and two file names with the
\* same sanitized name and different digests give different results.
C25_HashOfFullFilename ==
    pcall.op = "convertToSafeFilename" =>
        LET sanitized == Sanitized(NameWithoutExtension(pcall.filename))
        IN  /\ pcall.again = pcall.result
            /\ Len(pcall.result) > Len(sanitized)
                   => SubSeq(pcall.result, Len(sanitized) + 2, Len(pcall.result))
                         = Md5Hex8(pcall.filename)
            /\ \A other \in FileNames :
                   (/\ other # pcall.filename
                    /\ Sanitized(NameWithoutExtension(other)) = sanitized
                    /\ Len(pcall.result) > Len(sanitized)
                    /\ Len(convertToSafeFilename(other)) > Len(sanitized)
                    /\ Md5Hex8(other) # Md5Hex8(pcall.filename))
                       => convertToSafeFilename(other) # pcall.result

\* The first of the two kanji file names of the same length: "__" and the
\* suffix "_46a890b2", which the other one does not get.
C25_Witness ==
    /\ pcall.op = "convertToSafeFilename"
    /\ pcall.filename = <<"KANJI_SHI", "KANJI_RYO", ".", "p", "d", "f">>
    /\ pcall.result = <<"_", "_", "_", "4", "6", "a", "8", "9", "0", "b", "2">>
    /\ convertToSafeFilename(<<"KANJI_SHO", "KANJI_RUI", ".", "p", "d", "f">>)
           = <<"_", "_", "_", "5", "c", "4", "a", "a", "3", "4", "2">>

\* The entry the effect has written.
EffectEntry ==
    pcall.result[FindIndex(pcall.result, pcall.rawSegment.resultId, pcall.source)]

\* C28: the languageCode of the upserted entry is the code on the update
\* when it has one, else the configured primary language, else, the primary
\* language being "auto", unset; with no languageCode the entry holds its
\* whole text as one sentence.
C28_LanguageCodeResolution ==
    pcall.op = "rawTranscriptEffect" =>
        /\ EffectEntry.languageCode
              = (IF pcall.rawSegment.languageCode # NoLanguage
                 THEN pcall.rawSegment.languageCode
                 ELSE IF pcall.primaryLanguage # "auto"
                      THEN pcall.primaryLanguage
                      ELSE NoLanguage)
        /\ EffectEntry.languageCode = NoLanguage
               => TextsOf(EffectEntry.translationSegments)
                     = <<CurrentText(pcall.rawSegment.transcripts)>>

\* An update without a code under automatic detection replaces an entry that
\* had two sentences; the entry now has one.
C28_Witness ==
    /\ pcall.op = "rawTranscriptEffect"
    /\ pcall.rawSegment.languageCode = NoLanguage
    /\ pcall.primaryLanguage = "auto"
    /\ pcall.source = "microphone"
    /\ pcall.prev # <<>>
    /\ Len(pcall.prev[1].translationSegments) = 2
    /\ Len(EffectEntry.translationSegments) = 1
    /\ EffectEntry.languageCode = NoLanguage

(***************************************************************************)
(* Request recording.                                                      *)
(***************************************************************************)
\* C26: a request is recorded on its sentence's segment and in the side
\* index before its call resolves, so that whenever a response for a
\* sentence is processed the side index the processing reads shows every
\* request issued for that sentence so far: for each call awaiting its
\* response, both the side index of the component and the side index its
\* response handler will read hold a timestamp no older than the call's own.
C26_RequestsVisibleAtResponse ==
    /\ lastOp.op = "tick"
         => SegmentAt(realtimeSegments, lastOp.work[1].resultId, lastOp.work[1].source,
                      lastOp.work[1].sentenceIndex).requestTimestamp = now
    /\ \A i \in 1..Len(ticks) :
          LET t == ticks[i]
              item == t.work[t.pos]
              requestId == RequestId(item.resultId, item.sentenceIndex)
          IN  /\ MapGet(latestRequestTimestamps, requestId) >= t.requestTimestamp
              /\ MapGet(t.closureTimestamps, requestId) >= t.requestTimestamp

\* The part of C26 that the component state satisfies.
C26_RecordedInState ==
    /\ lastOp.op = "tick"
         => SegmentAt(realtimeSegments, lastOp.work[1].resultId, lastOp.work[1].source,
                      lastOp.work[1].sentenceIndex).requestTimestamp = now
    /\ \A i \in 1..Len(ticks) :
          LET t == ticks[i]
              item == t.work[t.pos]
          IN  MapGet(latestRequestTimestamps, RequestId(item.resultId, item.sentenceIndex))
                 >= t.requestTimestamp

(***************************************************************************)
(* The context field, the context timer and the dispatcher together.       *)
(***************************************************************************)
MaxContextCalls == 1

\* The context field is shown while recording.
SetUserDefinedContext(text) ==
    /\ recording
    /\ text # userDefinedContext
    /\ userDefinedContext' = text
    /\ lastOp' = [op |-> "userContext"]
    /\ UNCHANGED <<realtimeSegments, latestRequestTimestamps, selectedTranslationModel,
                   primaryLanguage, currentSessionId, recording, intervalClosure,
                   ticks, now, committedBy, systemGeneratedContext, contextCalls, pcall>>
    /\ UNCHANGED settingVars

\* The context timer, which runs while recording, fires: the callback of the
\* latest render decides whether to ask the model.
generateSystemContextCallback ==
    /\ recording
    /\ Len(contextCalls) < MaxContextCalls
    /\ LET called == shouldGenerateContext(TRUE, recording, realtimeSegments)
       IN  /\ contextCalls' = IF called
                              THEN Append(contextCalls, realtimeSegments)
                              ELSE contextCalls
           /\ lastOp' = [op |-> "generateContext", called |-> called]
    /\ UNCHANGED <<realtimeSegments, latestRequestTimestamps, selectedTranslationModel,
                   primaryLanguage, currentSessionId, recording, intervalClosure,
                   ticks, now, committedBy, userDefinedContext, systemGeneratedContext,
                   pcall>>
    /\ UNCHANGED settingVars

\* Mutant: a null or empty result is stored.
ContextResultStoring(i, outcome) ==
    /\ i \in 1..Len(contextCalls)
    /\ LET result == generateSystemContext(contextCalls[i], outcome)
       IN  /\ systemGeneratedContext' = IF result = NullContext THEN <<>> ELSE result
           /\ lastOp' = [op |-> "contextResult", result |-> result,
                         prev |-> systemGeneratedContext]
    /\ contextCalls' = RemoveAt(contextCalls, i)
    /\ UNCHANGED <<realtimeSegments, latestRequestTimestamps, selectedTranslationModel,
                   primaryLanguage, currentSessionId, recording, intervalClosure,
                   ticks, now, committedBy, userDefinedContext, pcall>>
    /\ UNCHANGED settingVars

\* The model answers, or fails, and the callback finishes.
ContextResult(i, outcome) ==
    /\ i \in 1..Len(contextCalls)
    /\ LET result == generateSystemContext(contextCalls[i], outcome)
       IN  /\ systemGeneratedContext' =
                  IF result # NullContext /\ result # <<>>
                  THEN result
                  ELSE systemGeneratedContext
           /\ lastOp' = [op |-> "contextResult", result |-> result,
                         prev |-> systemGeneratedContext]
    /\ contextCalls' = RemoveAt(contextCalls, i)
    /\ UNCHANGED <<realtimeSegments, latestRequestTimestamps, selectedTranslationModel,
                   primaryLanguage, currentSessionId, recording, intervalClosure,
                   ticks, now, committedBy, userDefinedContext, pcall>>
    /\ UNCHANGED settingVars

\* Transcripts of 24 and of 25 characters: two of them reach or miss the
\* minimum length by one character.
Long24 == [i \in 1..24 |-> "a"]
Long25 == [i \in 1..25 |-> "b"]

GenerationSegments ==
    {segment \in [resultId : TimelineResultIds, startTime : {1}, endTime : {2},
                  isPartial : BOOLEAN, transcripts : {<<Long24>>, <<Long25>>},
                  languageCode : {NoLanguage}] :
        segment.resultId = "r2" => (~segment.isPartial /\ segment.transcripts = <<Long24>>)}

PredictOutcomes ==
    {[ok |-> FALSE, text |-> <<>>],
     [ok |-> TRUE, text |-> <<" ">>],
     [ok |-> TRUE, text |-> <<"s", " ">>]}

\* The context timer over recording sessions.
GenerationNext ==
    \/ StartRecording
    \/ StopRecording
    \/ \E rawSegment \in GenerationSegments :
           recording /\ Upsert(rawSegment, "microphone")
    \/ generateSystemContextCallback
    \/ \E i \in 1..MaxContextCalls, outcome \in PredictOutcomes : ContextResult(i, outcome)

GenerationSpec == Init /\ [][GenerationNext]_vars

\* The dispatcher with the context field and the context timer during one
\* recording: one result, partial and then final with 50 characters.
ContextSegments ==
    {[resultId |-> "r1", startTime |-> 1, endTime |-> 2, isPartial |-> TRUE,
      transcripts |-> <<Long25>>, languageCode |-> NoLanguage],
     [resultId |-> "r1", startTime |-> 1, endTime |-> 2, isPartial |-> FALSE,
      transcripts |-> <<Long25, Long24>>, languageCode |-> NoLanguage]}

UserContexts == {<<>>, <<" ">>, <<"u">>}

ContextNext ==
    \/ \E rawSegment \in ContextSegments : recording /\ Upsert(rawSegment, "microphone")
    \/ SetDefaultModel
    \/ \E text \in UserContexts : SetUserDefinedContext(text)
    \/ generateSystemContextCallback
    \/ \E i \in 1..MaxContextCalls : ContextResult(i, [ok |-> TRUE, text |-> <<"s", " ">>])
    \/ TickAtNextTime
    \/ \E i \in 1..MaxTicks : Respond(i, "x")

ContextSpec == LiveInit /\ [][ContextNext]_vars

(***************************************************************************)
(* Properties of the translation context.                                  *)
(***************************************************************************)
\* The three sources of the context as they are when a call is issued.
ContextSources ==
    <<userDefinedContext, systemGeneratedContext,
      getRecentSegmentsContext(realtimeSegments, 10)>>

NonBlankSources == {k \in 1..3 : ~IsBlank(ContextSources[k])}

Occurs(part, whole) ==
    \E i \in 0..(Len(whole) - Len(part)) : SubSeq(whole, i + 1, i + Len(part)) = part

BlankLines(text) ==
    Cardinality({i \in 1..(Len(text) - 1) : text[i] = "\n" /\ text[i + 1] = "\n"})

\* C29: the call a tick issues carries a context made of the user's text,
\* the generated summary and the excerpt of the at most 10 most recent
\* finalized entries: no context when all three are blank, otherwise every
\* non-blank one of them, and only those, separated by blank lines.
C29_ContextAssembled ==
    lastOp.op = "tick"
        => LET carried == ticks[Len(ticks)].context
           IN  IF NonBlankSources = {}
               THEN carried = UndefinedContext
               ELSE /\ carried # UndefinedContext
                    /\ \A k \in NonBlankSources : Occurs(Trim(ContextSources[k]), carried)
                    /\ BlankLines(carried) = Cardinality(NonBlankSources) - 1

\* The three sources as the interval's translateSentence captured them.
CapturedSources ==
    <<intervalClosure.userDefinedContext, intervalClosure.systemGeneratedContext,
      intervalClosure.recentSegmentsText>>

\* The part of C29 that holds: the assembly, on the values it reads.
C29_AssembledFromCaptured ==
    lastOp.op = "tick"
        => LET carried == ticks[Len(ticks)].context
               nonBlank == {k \in 1..3 : ~IsBlank(CapturedSources[k])}
           IN  IF nonBlank = {}
               THEN carried = UndefinedContext
               ELSE /\ carried # UndefinedContext
                    /\ \A k \in nonBlank : Occurs(Trim(CapturedSources[k]), carried)
                    /\ BlankLines(carried) = Cardinality(nonBlank) - 1

\* The text of the finalized entries, joined by spaces.
CumulativeFinalizedLength(segments) ==
    Len(Join(TranscriptTexts(SelectSeq(segments, LAMBDA segment : ~segment.isPartial)),
             <<" ">>))

\* C30: the context timer asks the model only while recording and only with
\* at least 50 characters of finalized text; a generation that fails or
\* yields nothing leaves the stored context as it was.
C30_GenerationGuardedAndRetained ==
    /\ (lastOp.op = "generateContext" /\ lastOp.called)
          => /\ recording
             /\ CumulativeFinalizedLength(realtimeSegments) >= 50
             /\ contextCalls # <<>>
    /\ (lastOp.op = "generateContext" /\ ~lastOp.called)
          => CumulativeFinalizedLength(realtimeSegments) < 50
    /\ (lastOp.op = "contextResult" /\ lastOp.result \in {NullContext, <<>>})
          => systemGeneratedContext = lastOp.prev

\* A generation failed while a summary was stored, and the summary is kept.
C30_Witness ==
    /\ lastOp.op = "contextResult"
    /\ lastOp.result = NullContext
    /\ lastOp.prev = <<"s">>
    /\ systemGeneratedContext = <<"s">>

TerminatorsOf(languageCode) ==
    IF languageCode = "ja-JP" THEN {"IDEO_STOP", "?"} ELSE {".", "?"}

RECURSIVE Concat(_)
Concat(sentences) ==
    IF sentences = <<>> THEN <<>> ELSE Head(sentences) \o Concat(Tail(sentences))

\* A span is closed by a terminator, so the only span that can consist of
\* whitespace alone is the one after the last terminator: the text without
\* its whitespace-only spans is the text without that remainder.
WithoutBlankSpans(text, terminators) ==
    LET ends == {i \in 1..Len(text) : text[i] \in terminators}
        last == IF ends = {} THEN 0 ELSE CHOOSE i \in ends : \A j \in ends : j <= i
    IN  IF IsBlank(SubSeq(text, last + 1, Len(text)))
        THEN SubSeq(text, 1, last)
        ELSE text

\* C39: for a supported language every sentence returned is non-blank and
\* holds at most one terminator, at its end; the sentences concatenated in
\* order are the text without its whitespace-only spans.
C39_SentencesPartitionText ==
    (pcall.op = "splitIntoSentences" /\ supportsSentenceTranslation(pcall.languageCode))
        => LET terminators == TerminatorsOf(pcall.languageCode)
           IN  /\ \A k \in 1..Len(pcall.result) :
                     LET sentence == pcall.result[k]
                     IN  /\ ~IsBlank(sentence)
                         /\ \A i \in 1..Len(sentence) :
                                sentence[i] \in terminators => i = Len(sentence)
               /\ Concat(pcall.result) = WithoutBlankSpans(pcall.text, terminators)

\* A text of a sentence, a terminated span of whitespace and a whitespace
\* remainder: the remainder is dropped, the rest is kept.
C39_Witness ==
    /\ pcall.op = "splitIntoSentences"
    /\ pcall.languageCode = "en-US"
    /\ pcall.text = <<"a", ".", " ">>
    /\ pcall.result = << <<"a", ".">> >>

\* C40: countSentences is the number of sentences splitIntoSentences
\* returns; containsSentenceDelimiters is false for an absent or unsupported
\* language and, for a supported one, true exactly when the text holds one
\* of its terminators; a text for which it is false has at most one
\* sentence.
C40_DerivedConveniences ==
    /\ pcall.op = "countSentences"
          => pcall.result = Len(splitIntoSentences(pcall.text, pcall.languageCode))
    /\ pcall.op = "containsSentenceDelimiters"
          => /\ pcall.languageCode \notin {"ja-JP", "en-US"} => ~pcall.result
             /\ pcall.languageCode \in {"ja-JP", "en-US"}
                   => (pcall.result
                         <=> \E i \in 1..Len(pcall.text) :
                                 pcall.text[i] \in TerminatorsOf(pcall.languageCode))
             /\ ~pcall.result
                   => Len(splitIntoSentences(pcall.text, pcall.languageCode)) <= 1

\* A text with a full stop in an unsupported language: no delimiter is
\* reported.
C40_Witness ==
    /\ pcall.op = "containsSentenceDelimiters"
    /\ pcall.languageCode = "fr-FR"
    /\ pcall.text = <<"a", ".", " ", "b", "?">>
    /\ ~pcall.result

(***************************************************************************)
(* The settings (translation type and languages, shown while not           *)
(* recording) with the dispatcher.                                         *)
(***************************************************************************)
SetTranslationType(type) ==
    /\ ~recording
    /\ type # translationType
    /\ translationType' = type
    /\ lastOp' = [op |-> "setting"]
    /\ UNCHANGED <<realtimeSegments, latestRequestTimestamps, selectedTranslationModel,
                   primaryLanguage, currentSessionId, recording, intervalClosure,
                   ticks, now, committedBy, secondaryLanguage, pcall>>
    /\ UNCHANGED contextVars

SetPrimaryLanguage(languageCode) ==
    /\ ~recording
    /\ languageCode # primaryLanguage
    /\ primaryLanguage' = languageCode
    /\ lastOp' = [op |-> "setting"]
    /\ UNCHANGED <<realtimeSegments, latestRequestTimestamps, selectedTranslationModel,
                   currentSessionId, recording, intervalClosure, ticks, now,
                   committedBy, pcall>>
    /\ UNCHANGED contextVars
    /\ UNCHANGED settingVars

SetSecondaryLanguage(languageCode) ==
    /\ ~recording
    /\ languageCode # secondaryLanguage
    /\ secondaryLanguage' = languageCode
    /\ lastOp' = [op |-> "setting"]
    /\ UNCHANGED <<realtimeSegments, latestRequestTimestamps, selectedTranslationModel,
                   primaryLanguage, currentSessionId, recording, intervalClosure,
                   ticks, now, committedBy, translationType, pcall>>
    /\ UNCHANGED contextVars

\* One result of one sentence, with a detected language or without.
ConfigSegments ==
    [resultId : ResultIds, startTime : {1}, endTime : {2}, isPartial : {TRUE},
     transcripts : {<<UnitA>>}, languageCode : {NoLanguage, "ja-JP"}]

ConfigLanguages == {"en-US", "ja-JP"}

ConfigNext ==
    \/ StartRecording
    \/ StopRecording
    \/ \E rawSegment \in ConfigSegments : recording /\ Upsert(rawSegment, "microphone")
    \/ SetDefaultModel
    \/ \E type \in TranslationTypes : SetTranslationType(type)
    \/ \E languageCode \in ConfigLanguages : SetPrimaryLanguage(languageCode)
    \/ \E languageCode \in ConfigLanguages : SetSecondaryLanguage(languageCode)
    \/ SetUserDefinedContext(<<"u">>)
    \/ TickAtNextTime
    \/ \E i \in 1..MaxTicks : Respond(i, "x")

ConfigSpec == Init /\ [][ConfigNext]_vars

(***************************************************************************)
(* Further properties of the dispatcher.                                   *)
(***************************************************************************)
\* C31: the interval belongs to the recording session: it runs from the
\* start of a recording to its stop, so a tick issues a call only while a
\* recording is active.
C31_TicksOnlyWhileRecording ==
    lastOp.op = "tick" => recording

\* The sentence of the timeline a work item was made from is still to be
\* translated and still has the text the item carries.
IsCurrentWork(segments, item) ==
    /\ HasSegment(segments, item.resultId, item.source, item.sentenceIndex)
    /\ SegmentAt(segments, item.resultId, item.source, item.sentenceIndex).needsTranslation
    /\ SegmentAt(segments, item.resultId, item.source, item.sentenceIndex).text = item.text

\* C36: when a call is issued, by a tick for its first sentence or by the
\* tick going on to its next sentence, the sentence has needsTranslation in
\* the timeline as it is then, with the text the call carries.
C36_CallsForCurrentSentences ==
    [][/\ Len(ticks') > Len(ticks)
            => IsCurrentWork(realtimeSegments',
                             ticks'[Len(ticks')].work[ticks'[Len(ticks')].pos])
       /\ \A i \in 1..Len(ticks) :
             (/\ Len(ticks') = Len(ticks)
              /\ ticks'[i].pos = ticks[i].pos + 1)
                => IsCurrentWork(realtimeSegments', ticks'[i].work[ticks'[i].pos])]_vars

\* C37: the call a tick issues uses the settings as they are when it is
\* issued: its target language is the one resolved from the translation
\* type, the primary and the secondary language of that moment, and its
\* context holds the user-defined and the system-generated context of that
\* moment.
C37_CallsUseCurrentSettings ==
    lastOp.op = "tick"
        => LET t == ticks[Len(ticks)]
               item == t.work[t.pos]
           IN  /\ t.targetLanguage
                     = getTranslationTarget(translationType, item.languageCode,
                                            primaryLanguage, secondaryLanguage)
               /\ Occurs(<<"User-defined context: ">>, t.context)
                     <=> ~IsBlank(userDefinedContext)
               /\ ~IsBlank(userDefinedContext)
                     => Occurs(Trim(userDefinedContext), t.context)
               /\ Occurs(<<"System-generated context: ">>, t.context)
                     <=> ~IsBlank(systemGeneratedContext)
               /\ ~IsBlank(systemGeneratedContext)
                     => Occurs(Trim(systemGeneratedContext), t.context)

\* The part of C37 that holds: the call uses the settings its
\* translateSentence captured when the interval was created.
C37_CallsUseCapturedSettings ==
    lastOp.op = "tick"
        => LET t == ticks[Len(ticks)]
               item == t.work[t.pos]
           IN  /\ t.targetLanguage
                     = getTranslationTarget(intervalClosure.translationType,
                                            item.languageCode,
                                            intervalClosure.primaryLanguage,
                                            intervalClosure.secondaryLanguage)
               /\ t.context = combinedContext(intervalClosure)


(***************************************************************************)
(* The dispatcher over revisions that remove a sentence, and over entries  *)
(* of both audio sources that are cleared while calls are awaited.         *)
(***************************************************************************)
\* A result of three sentences whose middle sentence a later revision drops.
ShiftSegments ==
    [resultId : ResultIds, startTime : {1}, endTime : {2}, isPartial : {TRUE},
     transcripts : {<<UnitA, UnitB, UnitC>>, <<UnitA, UnitC>>},
     languageCode : {NoLanguage}]

ShiftNext ==
    \/ \E rawSegment \in ShiftSegments : Upsert(rawSegment, "microphone")
    \/ SetDefaultModel
    \/ TickAtNextTime
    \/ \E i \in 1..MaxTicks, translation \in {"x", Null} : Respond(i, translation)

ShiftSpec == LiveInit /\ [][ShiftNext]_vars

\* Results of one or two sentences from the microphone and of one sentence
\* from the screen, until the user clears
\* the transcript, which also ends the recording.
FrameSegments ==
    [resultId : ResultIds, startTime : {1}, endTime : {2}, isPartial : {TRUE},
     transcripts : {<<UnitA>>, <<UnitB, UnitA>>}, languageCode : {NoLanguage}]

FrameScreenSegments ==
    [resultId : ResultIds, startTime : {1}, endTime : {2}, isPartial : {TRUE},
     transcripts : {<<UnitA>>}, languageCode : {NoLanguage}]

FrameNext ==
    \/ handleClear
    \/ \E rawSegment \in FrameSegments :
           recording /\ Upsert(rawSegment, "microphone")
    \/ \E rawSegment \in FrameScreenSegments :
           recording /\ Upsert(rawSegment, "screen")
    \/ SetDefaultModel
    \/ TickAtNextTime
    \/ \E i \in 1..MaxTicks, translation \in {"x", Null} : Respond(i, translation)

FrameSpec == LiveInit /\ [][FrameNext]_vars

\* The side index keeps every key, and no stored timestamp goes down.
IndexNeverDecreases ==
    \A key \in DOMAIN latestRequestTimestamps :
        /\ key \in DOMAIN latestRequestTimestamps'
        /\ latestRequestTimestamps'[key] >= latestRequestTimestamps[key]

\* The side index is not behind the stamp of any sentence of the timeline.
IndexNotBehind(segments, timestamps) ==
    \A e \in 1..Len(segments) :
        \A index \in 1..Len(segments[e].translationSegments) :
            LET ts == segments[e].translationSegments[index]
            IN  ts.requestTimestamp # NoTimestamp
                    => MapGet(timestamps, RequestId(segments[e].resultId, index))
                           >= ts.requestTimestamp

\* C38: with a clock that never goes backwards, the timestamp the side index
\* stores for a key never decreases, and whenever a sentence carries a
\* requestTimestamp the side index value for its key is at least that stamp.
C38_IndexMonotone ==
    [][/\ IndexNeverDecreases
       /\ IndexNotBehind(realtimeSegments', latestRequestTimestamps')]_vars

\* A sentence carries the stamp of its request while a later request for
\* the same key, made for the entry of the other source, has raised the index.
C38_Witness ==
    \E e \in 1..Len(realtimeSegments) :
        \E index \in 1..Len(realtimeSegments[e].translationSegments) :
            LET ts == realtimeSegments[e].translationSegments[index]
            IN  /\ ts.requestTimestamp # NoTimestamp
                /\ MapGet(latestRequestTimestamps,
                          RequestId(realtimeSegments[e].resultId, index))
                       > ts.requestTimestamp

\* The sentence position a call of a running interval callback is about.
IsIssuedAt(tickSeq, timestamp, resultId, source, index) ==
    \E i \in 1..Len(tickSeq) :
        LET item == tickSeq[i].work[tickSeq[i].pos]
        IN  /\ item.resultId = resultId
            /\ item.source = source
            /\ item.sentenceIndex = index
            /\ tickSeq[i].requestTimestamp = timestamp

\* C35: recording a request and committing a response change only the
\* sentence at the request's index in the entry with the request's
\* (resultId, source) key: the stamp changes requestTimestamp alone, the
\* commit changes translation, needsTranslation and lastTranslatedText alone,
\* every other sentence and entry is unchanged, nothing is added or removed,
\* and a response whose entry or index no longer exists commits nothing.
C35_OnlyTheRequestedSentence ==
    [][lastOp'.op \in {"tick", "respond"} =>
          /\ Len(realtimeSegments') = Len(realtimeSegments)
          /\ \A e \in 1..Len(realtimeSegments) :
                 LET old == realtimeSegments[e]
                     new == realtimeSegments'[e]
                 IN  /\ [new EXCEPT !.translationSegments = old.translationSegments] = old
                     /\ Len(new.translationSegments) = Len(old.translationSegments)
                     /\ \A index \in 1..Len(old.translationSegments) :
                            LET before == old.translationSegments[index]
                                after == new.translationSegments[index]
                            IN  after # before =>
                                    \/ /\ lastOp'.op = "respond"
                                       /\ lastOp'.committed
                                       /\ lastOp'.item.resultId = old.resultId
                                       /\ lastOp'.item.source = old.source
                                       /\ lastOp'.item.sentenceIndex = index
                                       /\ after.text = before.text
                                       /\ after.requestTimestamp = before.requestTimestamp
                                    \/ /\ IsIssuedAt(ticks', now', old.resultId,
                                                     old.source, index)
                                       /\ after = [before EXCEPT
                                                      !.requestTimestamp = now']
          /\ (lastOp'.op = "respond"
              /\ ~HasSegment(realtimeSegments, lastOp'.item.resultId,
                             lastOp'.item.source, lastOp'.item.sentenceIndex)
              /\ Len(ticks') < Len(ticks))
                 => realtimeSegments' = realtimeSegments]_vars

\* A result has been committed to the second sentence of the microphone
\* entry while the timeline also holds the entry of the screen.
C35_Witness ==
    /\ lastOp.op = "respond"
    /\ lastOp.committed
    /\ lastOp.item.sentenceIndex = 2
    /\ lastOp.item.source = "microphone"
    /\ Len(realtimeSegments) = 2
    /\ SegmentAt(realtimeSegments, lastOp.item.resultId, "microphone", 2).translation = "x"

\* What a running interval callback holds of the timeline and of the side
\* index: the sentences it read and the map its translateSentence closed over.
HeldSnapshot(t) == [work |-> t.work, closureTimestamps |-> t.closureTimestamps]

C34_DoneMeansCurrentText ==
    \A e \in 1..Len(realtimeSegments) :
        \A index \in 1..Len(realtimeSegments[e].translationSegments) :
            LET ts == realtimeSegments[e].translationSegments[index]
            IN  (~ts.needsTranslation /\ Trim(ts.text) # <<>>)
                    => ts.lastTranslatedText = ts.text

\* The middle sentence was dropped while its call was awaited, its result
\* landed on the sentence that moved into its index, and a later call for
\* that sentence has now been committed.
C34_Witness ==
    /\ lastOp.op = "respond"
    /\ lastOp.committed
    /\ lastOp.item.sentenceIndex = 2
    /\ lastOp.prevSegment.needsTranslation
    /\ lastOp.prevSegment.translation = "x"
    /\ lastOp.prevSegment.lastTranslatedText # UndefinedText
    /\ lastOp.prevSegment.lastTranslatedText # lastOp.prevSegment.text
    /\ LET ts == SegmentAt(realtimeSegments, lastOp.item.resultId,
                           lastOp.item.source, 2)
       IN  /\ ~ts.needsTranslation
           /\ ts.text = lastOp.prevSegment.text
           /\ ts.lastTranslatedText = ts.text

====
